---- MODULE Spec2Model ----
(***************************************************************************)
(* Weekly plan editing and approval workflow of the sanivita CRM client:  *)
(* PlanEditor (the working copy of one representative's weekly plan),     *)
(* RepDashboard (which view the representative gets), ManagerDashboard    *)
(* (review and revoke) and the weekly_plans table behind services/api.ts. *)
(***************************************************************************)
EXTENDS Integers, Sequences, FiniteSets, TLC

(***************************************************************************)
(* Bounds of the model.                                                    *)
(***************************************************************************)
\* how many days of the work week the editing inputs address
NumDays == 2
\* region ids 1..NumRegions
NumRegions == 2
\* doctor ids 1..NumDoctors are the doctors api.getAllDoctors returned
NumDoctors == 1
\* the last day the clock reaches, in days since 1970-01-01
MaxDay == 13
\* how many visit reports a fetched list holds at most
MaxVisits == 3
\* visit times are 1 .. MaxTime, in half days since midnight UTC of a day 0
MaxTime == 6
\* how many days a calendar month of the visit statistics has
DaysPerMonth == 2

\* the auth events emitted and not yet handled, and the profile fetches of the
\* subscriber in flight
MaxEvents == 2

MaxFetches == 2

\* the latest time of cacheService
MaxNow == 3

\* the products of the visit form
NumProducts == 4

(***************************************************************************)
(* Values.                                                                 *)
(***************************************************************************)
\* a key the plan object does not hold (JavaScript undefined)
Missing == [kind |-> "missing", regionId |-> 0, doctorIds |-> <<>>]
\* the explicit "no plan for this day" marker
Null == [kind |-> "null", regionId |-> 0, doctorIds |-> <<>>]
\* the result of parseInt on a string that does not start with a digit
NaN == -1

\* the keys a plan object may hold: the day indices 0 .. 6 (Date.getDay() numbering)
\* and one key outside them, which only a row written by another client can hold
DayKeys == 0 .. 7

WORK_WEEK_DAYS == <<6, 0, 1, 2, 3, 4, 5>>

Regions == 1 .. NumRegions

\* Doctor.regionId of the doctors in allDoctors
DoctorRegion(id) == ((id - 1) % NumRegions) + 1

allDoctors == [id \in 1 .. NumDoctors |-> [id |-> id, regionId |-> DoctorRegion(id)]]

\* a DayPlanDetails object; every value of a day is a record so that values compare
DayPlanDetails(regionId, doctorIds) ==
    [kind |-> "details", regionId |-> regionId, doctorIds |-> doctorIds]

\* the truthiness test the handlers apply to a day's entry
IsDetails(dayPlan) == dayPlan.kind = "details"

\* initialPlan?.plan ? { ...initialPlan.plan } : {}
EmptyPlan == [d \in DayKeys |-> Missing]

(***************************************************************************)
(* Strings are sequences of characters, so that parseInt is computed.      *)
(***************************************************************************)
Digits == <<"0", "1", "2", "3", "4", "5", "6", "7", "8", "9">>

IsDigit(c) == \E i \in 1 .. 10 : Digits[i] = c

DigitValue(c) == (CHOOSE i \in 1 .. 10 : Digits[i] = c) - 1

\* String(n) for 0 <= n <= 99
ToStr(n) == IF n < 10 THEN <<Digits[n + 1]>> ELSE <<Digits[(n \div 10) + 1], Digits[(n % 10) + 1]>>

RECURSIVE ParseDigits(_, _, _)
ParseDigits(s, i, acc) ==
    IF i > Len(s) \/ ~IsDigit(s[i]) THEN acc
    ELSE ParseDigits(s, i + 1, acc * 10 + DigitValue(s[i]))

\* parseInt(s) on unsigned input: the leading run of digits, NaN when there is none
parseInt(s) == IF Len(s) = 0 \/ ~IsDigit(s[1]) THEN NaN ELSE ParseDigits(s, 1, 0)

isNaN(n) == n = NaN

StrNone == <<"n", "o", "n", "e">>
StrAddDoctor == <<"a", "d", "d", "_", "d", "o", "c", "t", "o", "r">>

VARIABLES
    store,          \* the weekly_plans table: rep_id -> row
    plan,           \* RepDashboard: the WeeklyPlan fetchData stored, or null
    view,           \* RepDashboard: which view is shown
    loading,        \* RepDashboard: fetchData has not settled yet
    planData,       \* PlanEditor: the working copy, day index -> Missing | Null | details
    saving,         \* PlanEditor: handleSave is awaiting api.updateRepPlan
    message,        \* PlanEditor: the message under the form
    saveReq,        \* the api.updateRepPlan request in flight
    savedTimer,     \* the 1500 ms timer that will call onPlanSaved
    signedIn,       \* the managers and supervisors whose ManagerDashboard is mounted
    allPlans,       \* ManagerDashboard, per session: rep_id -> WeeklyPlan
    reviewMessage,  \* ManagerDashboard, per session: the review message shown
    clock,          \* the calendar day it is, in days since 1970-01-01
    today,          \* RepDashboard: the day new Date() gave the latest render
    planStartDate,  \* RepDashboard: the memoised week start, with what it was computed from
    timezone,       \* the browser's offset from UTC, in half days
    recentVisits,   \* RepDashboard: the visit reports fetchData stored
    statsToday,     \* RepDashboard: the new Date() of the statistics memos, 0 before a fetch
    monthlyCounts,  \* RepDashboard: the memoised monthly counts
    visitFrequency, \* RepDashboard: the memoised frequency buckets
    allReports,     \* ManagerDashboard: the visit reports fetchInitialData stored
    selectedRep,    \* ManagerDashboard: the representative filter
    managerStats,   \* ManagerDashboard: the new Date() of its memo and its frequency buckets
    auth,           \* AuthProvider: user, loading, authError
    initAuth,       \* AuthProvider: where initAuth is, and what it has got so far
    session,        \* the supabase client holds a session
    authEvents,     \* the auth events emitted and not yet handled by the subscriber
    profileFetches, \* the subscriber's api.getUserProfile calls in flight
    authLog,        \* what the provider and the user have done so far
    cacheStore,     \* cacheService: key -> CacheItem, or absent
    dateNow,        \* cacheService: Date.now()
    cacheLog,       \* cacheService: the latest set of every key, and the call made last
    visitTargetType,    \* VisitForm: doctor or pharmacy
    selectedProductIds, \* VisitForm: the products ticked
    formLog,        \* VisitForm: the handler that ran last, and the selection before it
    planWeek,       \* the week start the editor showed for a submitted plan
    pendingDoctorsForToday, \* RepDashboard: the memoised planned doctors of today
    visitModal,     \* RepDashboard: the new-visit modal and its initial region
    weekStarts,     \* the week starts the three week computations gave for one date
    dayDateLabel,   \* PlanEditor: the date getDayDateLabel gave for one day index
    lastOp,         \* the workflow handler that ran last, and the state it started from
    last            \* the editing handler that ran last, and the plan it started from

authVars == <<auth, initAuth, session, authEvents, profileFetches, authLog>>
cacheVars == <<cacheStore, dateNow, cacheLog>>
formVars == <<visitTargetType, selectedProductIds, formLog>>
todayVars == <<planWeek, pendingDoctorsForToday, visitModal>>
calcVars == <<weekStarts, dayDateLabel>>

(***************************************************************************)
(* PlanEditor                                                              *)
(***************************************************************************)
RECURSIVE SeqToSet(_)
SeqToSet(s) == IF s = <<>> THEN {} ELSE {Head(s)} \cup SeqToSet(Tail(s))

\* the union of the doctorIds of every day of a plan
AssignedIn(p) ==
    UNION {SeqToSet(p[d].doctorIds) : d \in {k \in DOMAIN p : IsDetails(p[k])}}

assignedDoctorIds_OnlyNone == {}

assignedDoctorIds == AssignedIn(planData)

RegionChange_KeepDoctors(prevPlan, dayIndex, regionIdStr) ==
    LET regionId == parseInt(regionIdStr)
        existing == prevPlan[dayIndex]
    IN  IF regionIdStr = StrNone \/ isNaN(regionId)
        THEN [prevPlan EXCEPT ![dayIndex] = Null]
        ELSE [prevPlan EXCEPT ![dayIndex] =
                 DayPlanDetails(regionId, IF IsDetails(existing) THEN existing.doctorIds ELSE <<>>)]

\* the updater handleRegionChange passes to setPlanData
RegionChange(prevPlan, dayIndex, regionIdStr) ==
    LET regionId == parseInt(regionIdStr)
        existingDayPlanEntry == prevPlan[dayIndex]
    IN  IF regionIdStr = StrNone \/ isNaN(regionId)
        THEN [prevPlan EXCEPT ![dayIndex] = Null]
        ELSE LET doctorIds ==
                     IF IsDetails(existingDayPlanEntry) /\ existingDayPlanEntry.regionId = regionId
                     THEN existingDayPlanEntry.doctorIds
                     ELSE <<>>
             IN  [prevPlan EXCEPT ![dayIndex] = DayPlanDetails(regionId, doctorIds)]

Includes(seq, x) == \E i \in 1 .. Len(seq) : seq[i] = x

\* allDoctors.find(d => d.id === doctorId) finds a doctor
KnownDoctor(doctorId) == doctorId \in DOMAIN allDoctors

AddDoctor_Prepends(prevPlan, dayIndex, doctorId) ==
    LET currentDayPlanEntry == prevPlan[dayIndex]
    IN  IF IsDetails(currentDayPlanEntry)
        THEN IF ~Includes(currentDayPlanEntry.doctorIds, doctorId)
             THEN [prevPlan EXCEPT ![dayIndex] =
                      DayPlanDetails(currentDayPlanEntry.regionId,
                                     <<doctorId>> \o currentDayPlanEntry.doctorIds)]
             ELSE prevPlan
        ELSE IF KnownDoctor(doctorId)
             THEN [prevPlan EXCEPT ![dayIndex] =
                      DayPlanDetails(allDoctors[doctorId].regionId, <<doctorId>>)]
             ELSE prevPlan

AddDoctor_SeedsUnknown(prevPlan, dayIndex, doctorId) ==
    LET currentDayPlanEntry == prevPlan[dayIndex]
    IN  IF IsDetails(currentDayPlanEntry)
        THEN IF ~Includes(currentDayPlanEntry.doctorIds, doctorId)
             THEN [prevPlan EXCEPT ![dayIndex] =
                      DayPlanDetails(currentDayPlanEntry.regionId,
                                     Append(currentDayPlanEntry.doctorIds, doctorId))]
             ELSE prevPlan
        ELSE [prevPlan EXCEPT ![dayIndex] =
                 DayPlanDetails(IF KnownDoctor(doctorId) THEN allDoctors[doctorId].regionId ELSE 0,
                                <<doctorId>>)]

\* the updater handleAddDoctor passes to setPlanData
AddDoctor(prevPlan, dayIndex, doctorId) ==
    LET currentDayPlanEntry == prevPlan[dayIndex]
    IN  IF IsDetails(currentDayPlanEntry)
        THEN IF ~Includes(currentDayPlanEntry.doctorIds, doctorId)
             THEN [prevPlan EXCEPT ![dayIndex] =
                      DayPlanDetails(currentDayPlanEntry.regionId,
                                     Append(currentDayPlanEntry.doctorIds, doctorId))]
             ELSE prevPlan
        ELSE IF KnownDoctor(doctorId)
             THEN [prevPlan EXCEPT ![dayIndex] =
                      DayPlanDetails(allDoctors[doctorId].regionId, <<doctorId>>)]
             ELSE prevPlan

RemoveDoctor_KeepsOnly(prevPlan, dayIndex, doctorId) ==
    LET currentDayPlanEntry == prevPlan[dayIndex]
    IN  IF IsDetails(currentDayPlanEntry)
        THEN [prevPlan EXCEPT ![dayIndex] =
                 DayPlanDetails(currentDayPlanEntry.regionId,
                                SelectSeq(currentDayPlanEntry.doctorIds, LAMBDA id : id = doctorId))]
        ELSE prevPlan

\* the updater handleRemoveDoctor passes to setPlanData
RemoveDoctor(prevPlan, dayIndex, doctorId) ==
    LET currentDayPlanEntry == prevPlan[dayIndex]
    IN  IF IsDetails(currentDayPlanEntry)
        THEN [prevPlan EXCEPT ![dayIndex] =
                 DayPlanDetails(currentDayPlanEntry.regionId,
                                SelectSeq(currentDayPlanEntry.doctorIds, LAMBDA id : id # doctorId))]
        ELSE prevPlan

handleRegionChange(dayIndex, regionIdStr) ==
    planData' = RegionChange(planData, dayIndex, regionIdStr)

handleAddDoctor(dayIndex, doctorIdStr) ==
    LET doctorId == parseInt(doctorIdStr)
    IN  planData' = IF isNaN(doctorId) \/ doctorId \in assignedDoctorIds
                    THEN planData
                    ELSE AddDoctor(planData, dayIndex, doctorId)

handleRemoveDoctor(dayIndex, doctorId) ==
    planData' = RemoveDoctor(planData, dayIndex, doctorId)

\* the plan handleSave sends: every day of WORK_WEEK_DAYS, null where planData holds none
WorkWeekIndices == {WORK_WEEK_DAYS[i] : i \in 1 .. Len(WORK_WEEK_DAYS)}

cleanedPlan_CopiesAll == planData

cleanedPlan ==
    [d \in DayKeys |->
        IF d \notin WorkWeekIndices THEN Missing
        ELSE IF IsDetails(planData[d]) THEN planData[d] ELSE Null]

(***************************************************************************)
(* services/api.ts: the weekly_plans table                                 *)
(***************************************************************************)
Reps == {"r1", "r2"}

\* the representative whose RepDashboard is modelled (user.id)
Me == "r1"

Statuses == {"draft", "pending", "approved", "rejected"}

Row(p, status) == [exists |-> TRUE, plan |-> p, status |-> status]

NoRow == [exists |-> FALSE, plan |-> EmptyPlan, status |-> "draft"]

\* getRepPlan: data || { plan: {}, status: 'draft' }
getRepPlan(repId) ==
    IF store[repId].exists
    THEN [isNull |-> FALSE, plan |-> store[repId].plan, status |-> store[repId].status]
    ELSE [isNull |-> FALSE, plan |-> EmptyPlan, status |-> "draft"]

updateRepPlan_KeepStatus(repId, p) ==
    [store EXCEPT ![repId] = Row(p, IF store[repId].exists THEN store[repId].status ELSE "pending")]

\* updateRepPlan: upsert { rep_id, plan, status: 'pending' } on conflict rep_id
updateRepPlan(repId, p) == [store EXCEPT ![repId] = Row(p, "pending")]

reviewRepPlan_ResetsPlan(repId, newStatus) ==
    [store EXCEPT ![repId] = Row([d \in DayKeys |-> Null], newStatus)]

\* reviewRepPlan: update({ status: newStatus }).eq('rep_id', repId)
reviewRepPlan(repId, newStatus) == [store EXCEPT ![repId].status = newStatus]

revokePlanApproval_OnlyIfApproved(repId) ==
    IF store[repId].status = "approved"
    THEN [store EXCEPT ![repId] = [@ EXCEPT !.status = "draft"]]
    ELSE store

\* revokePlanApproval: update({ status: 'draft' }).eq('rep_id', repId)
revokePlanApproval(repId) == [store EXCEPT ![repId].status = "draft"]

\* getAllPlans: one entry per row of the table
getAllPlans == [r \in Reps |-> store[r]]

(***************************************************************************)
(* History of the workflow handlers.                                       *)
(***************************************************************************)
Op(handler, by, rep, arg, called, ok, p, localBefore, day) ==
    [handler |-> handler, by |-> by, rep |-> rep, arg |-> arg, called |-> called,
     ok |-> ok, plan |-> p, storeBefore |-> store, localBefore |-> localBefore,
     dayOfWeek |-> day]

NoLocal == [r \in Reps |-> NoRow]

OtherOp ==
    [handler |-> "other", by |-> "", rep |-> "", arg |-> "", called |-> FALSE,
     ok |-> FALSE, plan |-> EmptyPlan, storeBefore |-> [r \in Reps |-> NoRow],
     localBefore |-> NoLocal, dayOfWeek |-> 0]

NoCall == [op |-> "none", dayIndex |-> 0, arg |-> <<>>, before |-> EmptyPlan]

\* lastOp and last record one call of a run, the call a property speaks about, with
\* the state it started from. A run is followed up to and including the recorded
\* call; every state is also reached with nothing recorded, and the run goes on
\* from there.
Unobserved == lastOp = OtherOp /\ last = NoCall

Call(op, dayIndex, arg) ==
    [op |-> op, dayIndex |-> dayIndex, arg |-> arg, before |-> planData]

(***************************************************************************)
(* RepDashboard                                                            *)
(***************************************************************************)
NullPlan == [isNull |-> TRUE, plan |-> EmptyPlan, status |-> "draft"]

NoReq == [active |-> FALSE, mounted |-> FALSE, plan |-> EmptyPlan]

NoTimer == [active |-> FALSE, plan |-> NullPlan]

\* today.getDay() of a render: 0 (Sunday) to 6 (Saturday)
WeekDays == 0 .. 6

isPlanningTime_WedThu(dayOfWeek) == dayOfWeek = 3 \/ dayOfWeek = 4

\* Planning time is Thursday (4) and Friday (5)
isPlanningTime(dayOfWeek) == dayOfWeek = 4 \/ dayOfWeek = 5

canEdit_OnlyInWindow(dayOfWeek) ==
    (plan.isNull \/ plan.status # "approved") /\ isPlanningTime(dayOfWeek)

canEdit(dayOfWeek) == (plan.isNull \/ plan.status # "approved") \/ isPlanningTime(dayOfWeek)

\* Date.getDay() of a day: 1970-01-01, day 0, was a Thursday
getDay(n) == (n + 4) % 7

computePlanStartDate_NoWrap(planning, d) ==
    LET currentDay == getDay(d)
    IN  IF planning
        THEN d + ((6 - currentDay + 7) % 7)
        ELSE d - ((currentDay + 1) % 7)

computePlanStartDate_SundayWeek(planning, d) ==
    LET currentDay == getDay(d)
    IN  IF planning
        THEN LET daysUntilNextSaturday == (6 - currentDay + 7) % 7
             IN  d + (IF daysUntilNextSaturday = 0 THEN 7 ELSE daysUntilNextSaturday)
        ELSE d - currentDay

\* what the planStartDate memo computes: planning is isPlanningTime of the render, d
\* is the new Date() the memo takes itself; setDate moves d by whole days
computePlanStartDate(planning, d) ==
    LET currentDay == getDay(d)
    IN  IF planning
        THEN LET daysUntilNextSaturday == (6 - currentDay + 7) % 7
             IN  d + (IF daysUntilNextSaturday = 0 THEN 7 ELSE daysUntilNextSaturday)
        ELSE LET daysSinceSaturday == (currentDay + 1) % 7
             IN  d - daysSinceSaturday

\* the memo entry: the date, the isPlanningTime it depends on, the day it was computed
Memo(planning, d) ==
    [date |-> computePlanStartDate(planning, d), isPlanningTime |-> planning, now |-> d]

\* the first render of RepDashboard on day t; the memo reads the clock again, on day d
FirstRender(t, d) ==
    /\ today = t
    /\ clock = d
    /\ planStartDate = Memo(isPlanningTime(getDay(t)), d)

\* a later render: today is read, and the memo is computed again when isPlanningTime
\* differs from the one it was computed with; midnight may pass between the two reads
Render ==
    /\ today' = clock
    /\ LET planning == isPlanningTime(getDay(clock))
       IN  IF planning # planStartDate.isPlanningTime
           THEN \E d \in {clock, clock + 1} :
                    /\ d <= MaxDay
                    /\ clock' = d
                    /\ planStartDate' = Memo(planning, d)
           ELSE UNCHANGED <<clock, planStartDate>>

\* the next day begins
Tick ==
    /\ clock < MaxDay
    /\ clock' = clock + 1
    /\ UNCHANGED <<today, planStartDate>>

\* the pendingDoctorsForToday memo, computed on day d: the doctors of allDoctors whose
\* id the plan lists for the weekday of d and whom no doctor visit of that local day
\* names; doctor 1 is named a, every other doctor b
computePendingDoctors(p, visits, d) ==
    IF p.isNull THEN <<>>
    ELSE LET todayIndex == getDay(d)
             todaysDoctorIds == IF IsDetails(p.plan[todayIndex])
                                THEN p.plan[todayIndex].doctorIds ELSE <<>>
             visitedDoctorIds ==
                 {id \in 1 .. NumDoctors :
                     \E i \in 1 .. Len(visits) :
                         /\ (visits[i].date + timezone) \div 2 = d
                         /\ visits[i].type = "DOCTOR_VISIT"
                         /\ visits[i].targetName = IF id = 1 THEN "a" ELSE "b"}
             pendingDoctorIds == SelectSeq(todaysDoctorIds, LAMBDA id : id \notin visitedDoctorIds)
         IN  SelectSeq(allDoctors, LAMBDA doc : Includes(pendingDoctorIds, doc.id))

\* the memo with the day it was computed on
PendingMemo(p, visits, d) == [doctors |-> computePendingDoctors(p, visits, d), now |-> d]

\* RepDashboard after its first render: the memo of the plan it holds, the modal
\* closed; planWeek is the week start the editor showed for the plan of the request
\* in flight, of the stored row and of the dashboard's plan (none when unknown)
TodayMounted ==
    /\ planWeek = [req |-> {}, store |-> {}, plan |-> {}]
    /\ pendingDoctorsForToday = PendingMemo(plan, recentVisits, clock)
    /\ visitModal = [isModalOpen |-> FALSE, initialRegionForVisit |-> 0, now |-> 0]

\* the new-visit button: todayPlanForDay?.regionId ?? null, with a new Date()
newVisitClick ==
    /\ ~loading
    /\ view = "dashboard"
    /\ ~visitModal.isModalOpen
    /\ LET todayIndex == getDay(clock)
       IN  visitModal' = [isModalOpen |-> TRUE,
                          initialRegionForVisit |->
                              IF ~plan.isNull /\ IsDetails(plan.plan[todayIndex])
                              THEN plan.plan[todayIndex].regionId ELSE 0,
                          now |-> clock]
    /\ UNCHANGED <<planWeek, pendingDoctorsForToday>>

\* onClose of the modal
closeVisitModal ==
    /\ visitModal.isModalOpen
    /\ visitModal' = [visitModal EXCEPT !.isModalOpen = FALSE]
    /\ UNCHANGED <<planWeek, pendingDoctorsForToday>>

(***************************************************************************)
(* The week computations of ManagerDashboard, WeeklyView and PlanEditor.   *)
(* Dates are day numbers; setDate moves a date by whole days.              *)
(***************************************************************************)
\* getCurrentWeekDateStrings: startDate and endDate before they are formatted
getCurrentWeekDateStrings(d) ==
    LET dayOfWeek == getDay(d)
        startDate == d - (IF dayOfWeek = 6 THEN 0 ELSE dayOfWeek + 1)
    IN  [start |-> startDate, end |-> startDate + 6]

getWeekDates_NoSaturdayCase(currentDate) ==
    LET day == getDay(currentDate)
        diff == day + 1
    IN  [i \in 1 .. 7 |-> (currentDate - diff) + (i - 1)]

\* getWeekDates: the seven dates of the week, from the previous Saturday
getWeekDates(currentDate) ==
    LET day == getDay(currentDate)
        diff == IF day < 6 THEN day + 1 ELSE 0
    IN  [i \in 1 .. 7 |-> (currentDate - diff) + (i - 1)]

\* getDayDateLabel: the date that is formatted as the label of dayIndex
getDayDateLabel(startDate, dayIndex) ==
    LET offset == IF dayIndex = 6 THEN 0 ELSE dayIndex + 1
    IN  startDate + offset

\* nothing computed yet
NoCalc ==
    /\ weekStarts = [called |-> FALSE, now |-> 0, rep |-> 0, manager |-> 0, weekly |-> 0]
    /\ dayDateLabel = [called |-> FALSE, startDate |-> 0, dayIndex |-> 0, date |-> 0]

\* the three computations of the start of the current week, on the same day
computeWeekStarts(d) ==
    /\ weekStarts' = [called |-> TRUE, now |-> d,
                      rep |-> computePlanStartDate(FALSE, d),
                      manager |-> getCurrentWeekDateStrings(d).start,
                      weekly |-> getWeekDates(d)[1]]
    /\ UNCHANGED dayDateLabel

\* PlanEditor renders the label of one day
renderDayDateLabel(startDate, dayIndex) ==
    /\ dayDateLabel' = [called |-> TRUE, startDate |-> startDate, dayIndex |-> dayIndex,
                        date |-> getDayDateLabel(startDate, dayIndex)]
    /\ UNCHANGED weekStarts

dateVars == <<clock, today, planStartDate>>
visitVars == <<timezone, recentVisits, statsToday, monthlyCounts, visitFrequency,
               allReports, selectedRep, managerStats>>
repVars == <<plan, view, loading>>
editorVars == <<planData, saving, message>>
staffVars == <<signedIn, allPlans, reviewMessage>>

\* PlanEditor is not mounted: its state does not exist
EditorGone ==
    /\ planData' = EmptyPlan
    /\ saving' = FALSE
    /\ message' = ""
    /\ saveReq' = [saveReq EXCEPT !.mounted = FALSE]

\* fetchData, api.getRepPlan answered
FetchDataOk ==
    /\ Unobserved
    /\ view = "dashboard"
    /\ plan' = getRepPlan(Me)
    /\ loading' = FALSE
    /\ lastOp' = OtherOp
    /\ planWeek' = [planWeek EXCEPT !.plan = planWeek.store]
    /\ pendingDoctorsForToday' = PendingMemo(plan', recentVisits, clock)
    /\ UNCHANGED visitModal
    /\ UNCHANGED <<store, view, editorVars, saveReq, savedTimer, staffVars, dateVars, visitVars, authVars, cacheVars, formVars, calcVars, last>>

\* fetchData, a request failed: the catch block logs and nothing is set
FetchDataFail ==
    /\ Unobserved
    /\ view = "dashboard"
    /\ loading
    /\ loading' = FALSE
    /\ lastOp' = OtherOp
    /\ UNCHANGED <<store, plan, view, editorVars, saveReq, savedTimer, staffVars, dateVars, visitVars, authVars, cacheVars, formVars, calcVars, todayVars, last>>

\* dayOfWeek is the day of the render whose button is clicked
handleWeeklyPlanClick(dayOfWeek) ==
    /\ Unobserved
    /\ ~loading
    /\ view = "dashboard"
    /\ IF canEdit(dayOfWeek)
       THEN /\ view' = "plan"
            /\ planData' = IF plan.isNull THEN EmptyPlan ELSE plan.plan
            /\ saving' = FALSE
            /\ message' = ""
       ELSE /\ view' = "weekly"
            /\ UNCHANGED editorVars
    /\ lastOp' \in {OtherOp, Op("handleWeeklyPlanClick", Me, Me, "", FALSE, FALSE, EmptyPlan, NoLocal, dayOfWeek)}
    /\ UNCHANGED <<store, plan, loading, saveReq, savedTimer, staffVars, dateVars, visitVars, authVars, cacheVars, formVars, calcVars, todayVars, last>>

\* onBack of WeeklyView and of PlanEditor
onBack ==
    /\ Unobserved
    /\ ~loading
    /\ view \in {"weekly", "plan"}
    /\ view' = "dashboard"
    /\ EditorGone
    /\ lastOp' = OtherOp
    /\ UNCHANGED <<store, plan, loading, savedTimer, staffVars, dateVars, visitVars, authVars, cacheVars, formVars, calcVars, todayVars, last>>

(***************************************************************************)
(* PlanEditor inside RepDashboard                                          *)
(***************************************************************************)
EditorShown == view = "plan" /\ ~loading

\* one submission at a time: no second request while one is in flight or while the
\* timer of the previous one has not yet called onPlanSaved
handleSave ==
    /\ Unobserved
    /\ EditorShown
    /\ ~saving
    /\ ~saveReq.active /\ ~savedTimer.active
    /\ saving' = TRUE
    /\ message' = ""
    /\ saveReq' = [active |-> TRUE, mounted |-> TRUE, plan |-> cleanedPlan]
    /\ lastOp' = OtherOp
    /\ planWeek' = [planWeek EXCEPT !.req = {planStartDate.date}]
    /\ UNCHANGED <<pendingDoctorsForToday, visitModal>>
    /\ UNCHANGED <<store, repVars, planData, savedTimer, staffVars, dateVars, visitVars, authVars, cacheVars, formVars, calcVars, last>>

\* api.updateRepPlan resolved on a day of the week dayOfWeek: the row is upserted and the stored
\* record returned
UpdateRepPlanOk(dayOfWeek) ==
    /\ Unobserved
    /\ saveReq.active
    /\ store' = updateRepPlan(Me, saveReq.plan)
    /\ savedTimer' = [active |-> TRUE,
                      plan |-> [isNull |-> FALSE, plan |-> store'[Me].plan,
                                status |-> store'[Me].status]]
    /\ IF saveReq.mounted
       THEN message' = "plan_submitted_success" /\ saving' = FALSE
       ELSE UNCHANGED <<message, saving>>
    /\ saveReq' = NoReq
    /\ lastOp' \in {OtherOp, Op("updateRepPlan", Me, Me, "submit", TRUE, TRUE, saveReq.plan, NoLocal, dayOfWeek)}
    /\ planWeek' = [planWeek EXCEPT !.store = planWeek.req]
    /\ UNCHANGED <<pendingDoctorsForToday, visitModal>>
    /\ UNCHANGED <<repVars, planData, staffVars, dateVars, visitVars, authVars, cacheVars, formVars, calcVars, last>>

UpdateRepPlanFail_Retries ==
    /\ Unobserved
    /\ saveReq.active
    /\ IF saveReq.mounted
       THEN message' = "plan_submitted_error" /\ saving' = FALSE
       ELSE UNCHANGED <<message, saving>>
    /\ saveReq' = saveReq
    /\ lastOp' \in {OtherOp, Op("updateRepPlan", Me, Me, "submit", TRUE, FALSE, saveReq.plan, NoLocal, 0)}
    /\ UNCHANGED <<store, repVars, planData, savedTimer, staffVars, dateVars, visitVars, authVars, cacheVars, formVars, calcVars, todayVars, last>>

\* api.updateRepPlan threw (handleSupabaseError)
UpdateRepPlanFail ==
    /\ Unobserved
    /\ saveReq.active
    /\ IF saveReq.mounted
       THEN message' = "plan_submitted_error" /\ saving' = FALSE
       ELSE UNCHANGED <<message, saving>>
    /\ saveReq' = NoReq
    /\ lastOp' \in {OtherOp, Op("updateRepPlan", Me, Me, "submit", TRUE, FALSE, saveReq.plan, NoLocal, 0)}
    /\ UNCHANGED <<store, repVars, planData, savedTimer, staffVars, dateVars, visitVars, authVars, cacheVars, formVars, calcVars, todayVars, last>>

\* setTimeout(() => setMessage(''), 4000)
ClearMessage ==
    /\ Unobserved
    /\ message = "plan_submitted_error"
    /\ message' = ""
    /\ lastOp' = OtherOp
    /\ UNCHANGED <<store, repVars, planData, saving, saveReq, savedTimer, staffVars, dateVars, visitVars, authVars, cacheVars, formVars, calcVars, todayVars, last>>

\* setTimeout(() => onPlanSaved(updatedPlan), 1500): setPlan(newPlan); setView('dashboard')
onPlanSaved ==
    /\ Unobserved
    /\ savedTimer.active
    /\ plan' = savedTimer.plan
    /\ view' = "dashboard"
    /\ EditorGone
    /\ savedTimer' = NoTimer
    /\ lastOp' = OtherOp
    /\ planWeek' = [planWeek EXCEPT !.plan = planWeek.store]
    /\ pendingDoctorsForToday' = PendingMemo(plan', recentVisits, clock)
    /\ UNCHANGED visitModal
    /\ UNCHANGED <<store, loading, staffVars, dateVars, visitVars, authVars, cacheVars, formVars, calcVars, last>>

(***************************************************************************)
(* ManagerDashboard, one per signed-in manager or supervisor               *)
(***************************************************************************)
Staff == {"mgr", "sup"}

\* useAuth().user.role of each session
RoleOf(s) == IF s = "mgr" THEN "MANAGER" ELSE "SUPERVISOR"

IsManager_OrSupervisor(s) == RoleOf(s) \in {"MANAGER", "SUPERVISOR"}

\* user && user.role === UserRole.Manager
IsManager(s) == RoleOf(s) = "MANAGER"

\* the entries the approvals tab lists
pendingPlans(s) == {r \in Reps : allPlans[s][r].exists /\ allPlans[s][r].status = "pending"}

\* the rows of the weekly plans tab whose status is approved
approvedPlans(s) == {r \in Reps : allPlans[s][r].exists /\ allPlans[s][r].status = "approved"}

\* fetchInitialData: setAllPlans(plansData)
FetchInitialData(s) ==
    /\ Unobserved
    /\ s \in signedIn
    /\ allPlans' = [allPlans EXCEPT ![s] = getAllPlans]
    /\ lastOp' = OtherOp
    /\ UNCHANGED <<store, repVars, editorVars, saveReq, savedTimer, signedIn, dateVars, visitVars, authVars, cacheVars, formVars, calcVars, todayVars, reviewMessage, last>>

\* setAllPlans(prev => ({ ...prev, [repId]: { ...prev[repId], status } }))
OptimisticUpdate(s, repId, status) ==
    [allPlans EXCEPT ![s][repId] = [@ EXCEPT !.exists = TRUE, !.status = status]]

handleReviewPlan(s, repId, status) ==
    /\ Unobserved
    /\ s \in signedIn
    /\ repId \in pendingPlans(s)
    /\ \/ /\ store[repId].exists
          /\ store' = reviewRepPlan(repId, status)
          /\ allPlans' = OptimisticUpdate(s, repId, status)
          /\ reviewMessage' = [reviewMessage EXCEPT ![s] =
                IF status = "approved" THEN "plan_approved_success" ELSE "plan_rejected_success"]
          /\ lastOp' \in {OtherOp, Op("handleReviewPlan", s, repId, status, TRUE, TRUE, EmptyPlan, allPlans[s], 0)}
       \/ /\ reviewMessage' = [reviewMessage EXCEPT ![s] = "plan_review_error"]
          /\ lastOp' \in {OtherOp, Op("handleReviewPlan", s, repId, status, TRUE, FALSE, EmptyPlan, allPlans[s], 0)}
          /\ UNCHANGED <<store, allPlans>>
    /\ UNCHANGED <<repVars, editorVars, saveReq, savedTimer, signedIn, dateVars, visitVars, authVars, cacheVars, formVars, calcVars, todayVars, last>>

\* the handler as such: the button that calls it is rendered for a manager only, and
\* the handler checks the role again before it calls the api
handleRevokeApproval(s, repId) ==
    /\ Unobserved
    /\ s \in signedIn
    /\ repId \in approvedPlans(s)
    /\ IF ~IsManager(s)
       THEN /\ reviewMessage' = [reviewMessage EXCEPT ![s] = "error_permission_denied"]
            /\ lastOp' \in {OtherOp, Op("handleRevokeApproval", s, repId, "revoke", FALSE, FALSE, EmptyPlan, allPlans[s], 0)}
            /\ UNCHANGED <<store, allPlans>>
       ELSE \/ /\ store[repId].exists
               /\ store' = revokePlanApproval(repId)
               /\ allPlans' = OptimisticUpdate(s, repId, "draft")
               /\ reviewMessage' = [reviewMessage EXCEPT ![s] = "plan_revoked_success"]
               /\ lastOp' \in {OtherOp, Op("handleRevokeApproval", s, repId, "revoke", TRUE, TRUE, EmptyPlan, allPlans[s], 0)}
            \/ /\ reviewMessage' = [reviewMessage EXCEPT ![s] = "plan_revoke_error"]
               /\ lastOp' \in {OtherOp, Op("handleRevokeApproval", s, repId, "revoke", TRUE, FALSE, EmptyPlan, allPlans[s], 0)}
               /\ UNCHANGED <<store, allPlans>>
    /\ UNCHANGED <<repVars, editorVars, saveReq, savedTimer, signedIn, dateVars, visitVars, authVars, cacheVars, formVars, calcVars, todayVars, last>>

\* setTimeout(() => setReviewMessage(null), 3000)
ClearReviewMessage(s) ==
    /\ Unobserved
    /\ reviewMessage[s] # ""
    /\ reviewMessage' = [reviewMessage EXCEPT ![s] = ""]
    /\ lastOp' = OtherOp
    /\ UNCHANGED <<store, repVars, editorVars, saveReq, savedTimer, signedIn, dateVars, visitVars, authVars, cacheVars, formVars, calcVars, todayVars, allPlans, last>>

(***************************************************************************)
(* Visit statistics of RepDashboard and ManagerDashboard. A time is a      *)
(* number of half days since midnight UTC of a day 0; local time is that   *)
(* plus timezone; months have DaysPerMonth days, the first starting day 0. *)
(***************************************************************************)
TargetNames == {"a", "b"}

\* a VisitReport: the fields the statistics read
VisitReport(date, type, targetName, repName) ==
    [date |-> date, type |-> type, targetName |-> targetName, repName |-> repName]

\* new Date(today.getFullYear(), today.getMonth(), 1): local midnight of the first day
\* of the month of t
startOfMonth(t) ==
    LET localDay == (t + timezone) \div 2
    IN  (localDay - (localDay % DaysPerMonth)) * 2 - timezone

\* visitDate.toISOString().split('T')[0]: the date in UTC
toISODate(t) == t \div 2

\* visitDate >= startOfMonth && visitDate <= today
InMonthToDate(visit, t) == visit.date >= startOfMonth(t) /\ visit.date <= t

RECURSIVE CountVisits(_, _, _)
CountVisits(visits, t, acc) ==
    IF visits = <<>> THEN acc
    ELSE LET visit == Head(visits)
             next ==
                 IF InMonthToDate(visit, t)
                 THEN [doctorVisits |-> acc.doctorVisits +
                           (IF visit.type = "DOCTOR_VISIT" THEN 1 ELSE 0),
                       pharmacyVisits |-> acc.pharmacyVisits +
                           (IF visit.type = "PHARMACY_VISIT" THEN 1 ELSE 0),
                       workingDays |-> acc.workingDays \cup {toISODate(visit.date)}]
                 ELSE acc
         IN  CountVisits(Tail(visits), t, next)

\* a quotient, kept as numerator and denominator
Quotient(num, den) == [num |-> num, den |-> den]

\* the monthlyCounts memo, today being t
computeMonthlyCounts(visits, t) ==
    LET counted == CountVisits(visits, t,
                       [doctorVisits |-> 0, pharmacyVisits |-> 0, workingDays |-> {}])
        totalMonthlyVisits == counted.doctorVisits + counted.pharmacyVisits
        numberOfWorkingDays == Cardinality(counted.workingDays)
    IN  [doctorVisits |-> counted.doctorVisits,
         pharmacyVisits |-> counted.pharmacyVisits,
         visitsPerWorkingDay |->
             IF numberOfWorkingDays > 0
             THEN Quotient(totalMonthlyVisits, numberOfWorkingDays)
             ELSE Quotient(0, 1)]

\* visitCounts[key] = (visitCounts[key] || 0) + 1, a key that is absent counting 0
RECURSIVE VisitCounts(_, _, _)
VisitCounts(visits, t, acc) ==
    IF visits = <<>> THEN acc
    ELSE LET visit == Head(visits)
         IN  VisitCounts(Tail(visits), t,
                 IF InMonthToDate(visit, t) /\ visit.type = "DOCTOR_VISIT"
                 THEN [acc EXCEPT ![visit.targetName] = @ + 1]
                 ELSE acc)

computeVisitFrequency_TwoOrMore(visits, t) ==
    LET visitCounts == VisitCounts(visits, t, [n \in TargetNames |-> 0])
    IN  [freq1 |-> Cardinality({n \in TargetNames : visitCounts[n] = 1}),
         freq2 |-> Cardinality({n \in TargetNames : visitCounts[n] >= 2}),
         freq3 |-> Cardinality({n \in TargetNames : visitCounts[n] >= 3})]

\* the visitFrequency memo, today being t
computeVisitFrequency(visits, t) ==
    LET visitCounts == VisitCounts(visits, t, [n \in TargetNames |-> 0])
    IN  [freq1 |-> Cardinality({n \in TargetNames : visitCounts[n] = 1}),
         freq2 |-> Cardinality({n \in TargetNames : visitCounts[n] = 2}),
         freq3 |-> Cardinality({n \in TargetNames : visitCounts[n] >= 3})]

\* selectedRep === 'all' ? allReports : allReports.filter(r => r.repName === selectedRep)
relevantReports(reports, selected) ==
    IF selected = "all" THEN reports
    ELSE SelectSeq(reports, LAMBDA r : r.repName = selected)

NoStats == [today |-> 0, visitFrequency |-> [freq1 |-> 0, freq2 |-> 0, freq3 |-> 0]]

\* both dashboards before their fetch: empty lists, and the memos computed on them
NoVisits ==
    /\ recentVisits = <<>>
    /\ statsToday = 0
    /\ monthlyCounts = [doctorVisits |-> 0, pharmacyVisits |-> 0,
                        visitsPerWorkingDay |-> Quotient(0, 1)]
    /\ visitFrequency = [freq1 |-> 0, freq2 |-> 0, freq3 |-> 0]
    /\ allReports = <<>>
    /\ selectedRep = "all"
    /\ managerStats = NoStats

\* fetchData stored the visit reports and the render computed both memos at time t
SetRecentVisits(visits, t) ==
    /\ recentVisits' = visits
    /\ statsToday' = t
    /\ monthlyCounts' = computeMonthlyCounts(visits, t)
    /\ visitFrequency' = computeVisitFrequency(visits, t)
    /\ UNCHANGED <<timezone, allReports, selectedRep, managerStats>>

\* fetchInitialData stored the reports of every representative, the filter is set, and
\* the render computed the memo at time t
SetAllReports(reports, selected, t) ==
    /\ allReports' = reports
    /\ selectedRep' = selected
    /\ managerStats' = [today |-> t,
                        visitFrequency |->
                            computeVisitFrequency(relevantReports(reports, selected), t)]
    /\ UNCHANGED <<timezone, recentVisits, statsToday, monthlyCounts, visitFrequency>>

(***************************************************************************)
(* hooks/useAuth.tsx and hooks/useAuth_new.tsx: AuthProvider. auth is the  *)
(* provider's state, initAuth the position of initAuth, session whether    *)
(* the supabase client holds a session, authEvents the events the client   *)
(* has emitted and the subscriber has not yet been called with,            *)
(* profileFetches the getUserProfile calls of the subscriber in flight.    *)
(***************************************************************************)
\* const maxRetries = 3
maxRetries == 3

Providers == {"useAuth", "useAuth_new"}

AuthState(user, isLoading, authError) ==
    [user |-> user, loading |-> isLoading, authError |-> authError]

\* useState(null), useState(true), useState(null)
AuthMounting == AuthState("null", TRUE, "null")

InitAuthAt(provider, configured, pc, attempt, sessionResult) ==
    [provider |-> provider, configured |-> configured, pc |-> pc, attempt |-> attempt,
     sessionResult |-> sessionResult]

\* what the properties need of the past: the timeout of initAuth fired, logout() was
\* invoked and login() has not been since, login() or logout() was invoked at all,
\* and the number of calls of supabase.auth.getSession
NoAuthLog == [timedOut |-> FALSE, loggedOut |-> FALSE, userActed |-> FALSE, calls |-> 0]

\* the provider before its effect has run
AuthConstructed(provider, configured, stored) ==
    /\ auth = AuthMounting
    /\ initAuth = InitAuthAt(provider, configured, "start", 0, "none")
    /\ session = stored
    /\ authEvents = <<>>
    /\ profileFetches = 0
    /\ authLog = NoAuthLog

Emit(event) == authEvents' = Append(authEvents, event)

Settled_KeepsLoading(a) == a

\* finally { if (mounted) setLoading(false) } and the end of initAuth
Settled(a) == [a EXCEPT !.loading = FALSE]

\* the effect: initAuth runs to its first await
initAuthStart ==
    /\ initAuth.pc = "start"
    /\ IF ~initAuth.configured
       THEN /\ auth' = Settled(auth)
            /\ initAuth' = [initAuth EXCEPT !.pc = "done"]
            /\ UNCHANGED authLog
       ELSE /\ initAuth' = [initAuth EXCEPT !.pc = "getSession"]
            /\ authLog' = [authLog EXCEPT !.calls = @ + 1]
            /\ UNCHANGED auth
    /\ UNCHANGED <<session, authEvents, profileFetches>>

\* what initAuth does with an error it caught that is no timeout: rls_error sets the
\* error, every other error only the user
CaughtError(a, msg) ==
    IF msg = "rls_error"
    THEN [a EXCEPT !.authError = "rls_error", !.user = "null"]
    ELSE [a EXCEPT !.user = "null"]

\* useAuth.tsx: supabase.auth.getSession() won the race
getSessionSettles(outcome) ==
    /\ initAuth.provider = "useAuth"
    /\ initAuth.pc = "getSession"
    /\ outcome \in {"session", "noSession", "error", "throws"}
    /\ outcome = "session" => session
    /\ outcome = "noSession" => ~session
    /\ IF outcome = "session"
       THEN /\ initAuth' = [initAuth EXCEPT !.pc = "getUserProfile"]
            /\ UNCHANGED auth
       ELSE /\ initAuth' = [initAuth EXCEPT !.pc = "done"]
            /\ auth' = Settled(IF outcome = "noSession" THEN auth
                               ELSE CaughtError(auth, "other"))
    /\ UNCHANGED <<session, authEvents, profileFetches, authLog>>

\* useAuth.tsx: the 7 second timer won the race; the catch block sets the error and
\* awaits supabase.auth.signOut()
getSessionTimeout ==
    /\ initAuth.provider = "useAuth"
    /\ initAuth.pc = "getSession"
    /\ auth' = [auth EXCEPT !.authError = "auth_timeout_error"]
    /\ initAuth' = [initAuth EXCEPT !.pc = "signOut"]
    /\ authLog' = [authLog EXCEPT !.timedOut = TRUE]
    /\ UNCHANGED <<session, authEvents, profileFetches>>

\* the forced sign-out settled: the client dropped its session and may have emitted
\* SIGNED_OUT; when it resolved setUser(null) follows, when it threw only finally
signOutSettles(resolved, emitted) ==
    /\ initAuth.pc = "signOut"
    /\ emitted => Len(authEvents) < MaxEvents
    /\ session' = FALSE
    /\ IF emitted THEN Emit("SIGNED_OUT") ELSE UNCHANGED authEvents
    /\ auth' = Settled(IF resolved THEN [auth EXCEPT !.user = "null"] ELSE auth)
    /\ initAuth' = [initAuth EXCEPT !.pc = "done"]
    /\ UNCHANGED <<profileFetches, authLog>>

\* initAuth's api.getUserProfile settled: the profile, rls_error or another error
initProfileSettles(outcome) ==
    /\ initAuth.pc = "getUserProfile"
    /\ outcome \in {"profile", "rls_error", "other"}
    /\ auth' = Settled(
           IF outcome = "profile" THEN [auth EXCEPT !.user = "profile"]
           ELSE IF initAuth.provider = "useAuth" THEN CaughtError(auth, outcome)
           ELSE [auth EXCEPT !.authError = "profile_fetch_error", !.user = "fallback"])
    /\ initAuth' = [initAuth EXCEPT !.pc = "done"]
    /\ UNCHANGED <<session, authEvents, profileFetches, authLog>>

\* useAuth_new.tsx: an attempt of the retry loop settled
getSessionAttempt(outcome) ==
    /\ initAuth.provider = "useAuth_new"
    /\ initAuth.pc = "getSession"
    /\ outcome \in {"session", "noSession", "error", "throws"}
    /\ outcome = "session" => session
    /\ outcome = "noSession" => ~session
    /\ IF outcome = "session"
       THEN /\ initAuth' = [initAuth EXCEPT !.pc = "getUserProfile", !.sessionResult = "ok"]
            /\ UNCHANGED auth
       ELSE IF outcome = "noSession"
       THEN /\ initAuth' = [initAuth EXCEPT !.pc = "done", !.sessionResult = "ok"]
            /\ auth' = Settled(auth)
       ELSE /\ initAuth' = [initAuth EXCEPT
                               !.pc = "delay", !.attempt = @ + 1,
                               !.sessionResult = IF outcome = "error" THEN "error" ELSE @]
            /\ UNCHANGED auth
    /\ UNCHANGED <<session, authEvents, profileFetches, authLog>>

\* useAuth_new.tsx: the 2 second delay ended: the loop calls getSession again while
\* attempt < maxRetries, and otherwise the code after the loop runs; msg is the
\* message of the error the last result carries
retryDelay(msg) ==
    /\ initAuth.pc = "delay"
    /\ msg \in {"auth_timeout", "rls_error", "other"}
    /\ IF initAuth.attempt < maxRetries
       THEN /\ initAuth' = [initAuth EXCEPT !.pc = "getSession"]
            /\ authLog' = [authLog EXCEPT !.calls = @ + 1]
            /\ UNCHANGED auth
       ELSE /\ initAuth' = [initAuth EXCEPT !.pc = "done"]
            /\ auth' = Settled(
                   IF initAuth.sessionResult = "none"
                   THEN [auth EXCEPT !.authError = "auth_timeout_error", !.user = "null"]
                   ELSE IF msg = "auth_timeout"
                   THEN [auth EXCEPT !.authError = "auth_timeout_error"]
                   ELSE CaughtError(auth, msg))
            /\ UNCHANGED authLog
    /\ UNCHANGED <<session, authEvents, profileFetches>>

\* the login form is shown (PublicRoute): login() clears the error and calls
\* api.login; signed is whether signInWithPassword succeeded (SIGNED_IN), profile
\* whether api.login's own getUserProfile did (api.logout and SIGNED_OUT when not)
login(signed, profile) ==
    /\ ~auth.loading
    /\ auth.user = "null"
    /\ Len(authEvents) + 2 <= MaxEvents
    /\ auth' = [auth EXCEPT !.authError = "null"]
    /\ authLog' = [authLog EXCEPT !.userActed = TRUE, !.loggedOut = FALSE]
    /\ IF ~signed
       THEN UNCHANGED <<session, authEvents>>
       ELSE IF profile
       THEN session' = TRUE /\ Emit("SIGNED_IN")
       ELSE session' = FALSE /\ authEvents' = authEvents \o <<"SIGNED_IN", "SIGNED_OUT">>
    /\ UNCHANGED <<initAuth, profileFetches>>

\* logout() from the header of a dashboard or from the retry button of the timeout
\* screen: signedOut is whether api.logout succeeded; its error is caught and logged
logout(signedOut) ==
    /\ ~auth.loading
    /\ auth.user # "null" \/ auth.authError = "auth_timeout_error"
    /\ Len(authEvents) < MaxEvents
    /\ auth' = [auth EXCEPT !.user = "null", !.authError = "null"]
    /\ authLog' = [authLog EXCEPT !.userActed = TRUE, !.loggedOut = TRUE]
    /\ IF signedOut
       THEN session' = FALSE /\ Emit("SIGNED_OUT")
       ELSE UNCHANGED <<session, authEvents>>
    /\ UNCHANGED <<initAuth, profileFetches>>

\* autoRefreshToken: the client refreshed the token of its session
tokenRefreshed ==
    /\ session
    /\ initAuth.pc # "start"
    /\ Len(authEvents) < MaxEvents
    /\ Emit("TOKEN_REFRESHED")
    /\ UNCHANGED <<auth, initAuth, session, profileFetches, authLog>>

\* the onAuthStateChange callback is called with the oldest event: it starts a
\* profile fetch for SIGNED_IN and TOKEN_REFRESHED, it clears user and error for
\* SIGNED_OUT
onAuthStateChange ==
    /\ authEvents # <<>>
    /\ authEvents' = Tail(authEvents)
    /\ IF Head(authEvents) \in {"SIGNED_IN", "TOKEN_REFRESHED"}
       THEN /\ profileFetches < MaxFetches
            /\ profileFetches' = profileFetches + 1
            /\ UNCHANGED auth
       ELSE /\ auth' = [auth EXCEPT !.user = "null", !.authError = "null"]
            /\ UNCHANGED profileFetches
    /\ UNCHANGED <<initAuth, session, authLog>>

\* a profile fetch of the callback settled: if (mounted) { setUser; setAuthError }
\* with the profile; with an error useAuth.tsx logs, useAuth_new.tsx sets the error
\* and a user built from the session
handlerProfileSettles(ok) ==
    /\ profileFetches > 0
    /\ profileFetches' = profileFetches - 1
    /\ auth' = IF ok THEN [auth EXCEPT !.user = "profile", !.authError = "null"]
               ELSE IF initAuth.provider = "useAuth" THEN auth
               ELSE [auth EXCEPT !.authError = "profile_fetch_error", !.user = "fallback"]
    /\ UNCHANGED <<initAuth, session, authEvents, authLog>>

\* the provider of a session whose dashboard is shown
SignedInAuth ==
    /\ auth = AuthState("profile", FALSE, "null")
    /\ initAuth = InitAuthAt("useAuth", TRUE, "done", 0, "none")
    /\ session = TRUE
    /\ authEvents = <<>>
    /\ profileFetches = 0
    /\ authLog = NoAuthLog

(***************************************************************************)
(* services/cacheService.ts. A time is a number of units of 7.5 minutes.   *)
(***************************************************************************)
\* CACHE_EXPIRY_TIME = 15 * 60 * 1000, in units of 7.5 minutes
CACHE_EXPIRY_TIME == 2

CacheKeys == {"users", "regions"}

CacheData == {"d1", "d2"}

\* a key cacheStore does not hold
Absent == [present |-> FALSE, data |-> "", timestamp |-> 0, expiry |-> 0]

CacheItem(data, timestamp, expiry) ==
    [present |-> TRUE, data |-> data, timestamp |-> timestamp, expiry |-> expiry]

isExpired_AtExpiry(cacheItem) == dateNow >= cacheItem.expiry

\* Date.now() > cacheItem.expiry
isExpired(cacheItem) == dateNow > cacheItem.expiry

CacheCall(op, key, result) == [op |-> op, key |-> key, result |-> result]

NoCacheCall == CacheCall("none", "", "")

\* no set of the key since it was last removed or cleared
NeverSet == [present |-> FALSE, data |-> "", timestamp |-> 0, supplied |-> FALSE,
             customExpiry |-> 0]

\* the module after it is loaded
NoCache ==
    /\ cacheStore = [k \in CacheKeys |-> Absent]
    /\ dateNow = 0
    /\ cacheLog = [latest |-> [k \in CacheKeys |-> NeverSet], call |-> NoCacheCall]

Logged(call) == cacheLog' = [cacheLog EXCEPT !.call = call]

cacheGet(key) ==
    /\ IF ~cacheStore[key].present
       THEN /\ Logged(CacheCall("get", key, "null"))
            /\ UNCHANGED cacheStore
       ELSE IF isExpired(cacheStore[key])
       THEN /\ cacheStore' = [cacheStore EXCEPT ![key] = Absent]
            /\ Logged(CacheCall("get", key, "null"))
       ELSE /\ Logged(CacheCall("get", key, cacheStore[key].data))
            /\ UNCHANGED cacheStore
    /\ UNCHANGED dateNow

\* customExpiry || (Date.now() + CACHE_EXPIRY_TIME): supplied is whether the argument
\* was given, and 0 counts as not given
cacheSet(key, data, supplied, customExpiry) ==
    /\ LET expiry == IF ~supplied \/ customExpiry = 0
                     THEN dateNow + CACHE_EXPIRY_TIME
                     ELSE customExpiry
       IN  cacheStore' = [cacheStore EXCEPT ![key] = CacheItem(data, dateNow, expiry)]
    /\ cacheLog' = [latest |-> [cacheLog.latest EXCEPT
                                   ![key] = [present |-> TRUE, data |-> data,
                                             timestamp |-> dateNow, supplied |-> supplied,
                                             customExpiry |-> customExpiry]],
                    call |-> CacheCall("set", key, "")]
    /\ UNCHANGED dateNow

cacheRemove(key) ==
    /\ cacheStore' = [cacheStore EXCEPT ![key] = Absent]
    /\ cacheLog' = [latest |-> [cacheLog.latest EXCEPT ![key] = NeverSet],
                    call |-> CacheCall("remove", key, "")]
    /\ UNCHANGED dateNow

\* every key of cacheStore starts with CACHE_PREFIX
cacheClear ==
    /\ cacheStore' = [k \in CacheKeys |-> Absent]
    /\ cacheLog' = [latest |-> [k \in CacheKeys |-> NeverSet],
                    call |-> CacheCall("clear", "", "")]
    /\ UNCHANGED dateNow

cacheHas(key) ==
    /\ IF ~cacheStore[key].present
       THEN /\ Logged(CacheCall("has", key, "false"))
            /\ UNCHANGED cacheStore
       ELSE IF isExpired(cacheStore[key])
       THEN /\ cacheStore' = [cacheStore EXCEPT ![key] = Absent]
            /\ Logged(CacheCall("has", key, "false"))
       ELSE /\ Logged(CacheCall("has", key, "true"))
            /\ UNCHANGED cacheStore
    /\ UNCHANGED dateNow

\* time passes
cacheTick ==
    /\ dateNow < MaxNow
    /\ dateNow' = dateNow + 1
    /\ Logged(NoCacheCall)
    /\ UNCHANGED cacheStore

(***************************************************************************)
(* components/VisitForm.tsx                                                *)
(***************************************************************************)
Products == 1 .. NumProducts

FormCall(op, arg, before) == [op |-> op, arg |-> arg, before |-> before]

NoFormCall == FormCall("none", 0, <<>>)

\* useState('doctor'), useState([])
NoForm ==
    /\ visitTargetType = "doctor"
    /\ selectedProductIds = <<>>
    /\ formLog = NoFormCall

\* prev.filter(id => id !== productId)
Without(prev, productId) == SelectSeq(prev, LAMBDA id : id # productId)

ProductChange_NoLimit(prev, productId) ==
    IF Includes(prev, productId) THEN Without(prev, productId)
    ELSE Append(prev, productId)

\* the updater of handleProductChange
ProductChange(prev, productId) ==
    IF Includes(prev, productId) THEN Without(prev, productId)
    ELSE IF Len(prev) < 3 THEN Append(prev, productId)
    ELSE prev

handleProductChange(productId) ==
    /\ selectedProductIds' = ProductChange(selectedProductIds, productId)
    /\ formLog' = FormCall("handleProductChange", productId, selectedProductIds)
    /\ UNCHANGED visitTargetType

handleTargetTypeSwitch(type) ==
    /\ formLog' = FormCall("handleTargetTypeSwitch", IF type = "doctor" THEN 0 ELSE 1,
                           selectedProductIds)
    /\ IF type = visitTargetType
       THEN UNCHANGED <<visitTargetType, selectedProductIds>>
       ELSE /\ visitTargetType' = type
            /\ selectedProductIds' = <<>>

(***************************************************************************)
(* Inputs of the editing handlers.                                         *)
(***************************************************************************)
DayInputs == {WORK_WEEK_DAYS[i] : i \in 1 .. NumDays}

\* the region select: "none", every region, and a value that is no number
RegionInputs == {StrNone, <<"x">>} \cup {ToStr(r) : r \in Regions}

\* the doctor select: the placeholder, every doctor and one id allDoctors lacks
DoctorInputs == {StrAddDoctor} \cup {ToStr(id) : id \in 1 .. NumDoctors + 1}

\* what the representative edits between opening the editor and submitting
FlowDayInputs == {WORK_WEEK_DAYS[1]}
FlowRegionInputs == {StrNone, ToStr(1)}
FlowDoctorInputs == {ToStr(1)}

vars == <<store, plan, view, loading, planData, saving, message, saveReq,
          savedTimer, signedIn, allPlans, reviewMessage, clock, today, planStartDate,
          timezone, recentVisits, statsToday, monthlyCounts, visitFrequency,
          allReports, selectedRep, managerStats, auth, initAuth, session, authEvents,
          profileFetches, authLog, cacheStore, dateNow, cacheLog, visitTargetType,
          selectedProductIds, formLog, planWeek, pendingDoctorsForToday, visitModal,
          weekStarts, dayDateLabel, lastOp, last>>

\* the plan another representative submitted earlier
OtherRepPlan ==
    [d \in DayKeys |->
        IF d = 6 THEN DayPlanDetails(2, <<2>>)
        ELSE IF d \in WorkWeekIndices THEN Null ELSE Missing]

Init ==
    /\ store = [r \in Reps |-> IF r = Me THEN NoRow ELSE Row(OtherRepPlan, "rejected")]
    /\ plan = NullPlan
    /\ view = "dashboard"
    /\ loading = TRUE
    /\ signedIn \in {{s} : s \in Staff}
    /\ planData = EmptyPlan
    /\ saving = FALSE
    /\ message = ""
    /\ saveReq = NoReq
    /\ savedTimer = NoTimer
    /\ allPlans = [s \in Staff |-> NoLocal]
    /\ reviewMessage = [s \in Staff |-> ""]
    /\ FirstRender(0, 0)
    /\ timezone = 0
    /\ NoVisits
    /\ SignedInAuth
    /\ NoCache
    /\ NoForm
    /\ NoCalc
    /\ TodayMounted
    /\ lastOp = OtherOp
    /\ last = NoCall

flowFrame == <<store, repVars, saving, message, saveReq, savedTimer, staffVars, dateVars, visitVars, authVars, cacheVars, formVars, calcVars, todayVars, last>>

EditRegion ==
    /\ Unobserved
    /\ EditorShown
    /\ \E d \in FlowDayInputs, s \in FlowRegionInputs : handleRegionChange(d, s)
    /\ lastOp' = OtherOp
    /\ UNCHANGED flowFrame

EditAddDoctor ==
    /\ Unobserved
    /\ EditorShown
    /\ \E d \in FlowDayInputs, s \in FlowDoctorInputs : handleAddDoctor(d, s)
    /\ lastOp' = OtherOp
    /\ UNCHANGED flowFrame

EditRemoveDoctor ==
    /\ Unobserved
    /\ EditorShown
    /\ \E d \in FlowDayInputs, s \in FlowDoctorInputs : handleRemoveDoctor(d, parseInt(s))
    /\ lastOp' = OtherOp
    /\ UNCHANGED flowFrame

ReviewStep == \E s \in Staff, r \in Reps, st \in {"approved", "rejected"} : handleReviewPlan(s, r, st)

RevokeStep == \E s \in Staff, r \in Reps : handleRevokeApproval(s, r)

Next ==
    \/ FetchDataOk
    \/ FetchDataFail
    \/ \E dayOfWeek \in WeekDays : handleWeeklyPlanClick(dayOfWeek)
    \/ onBack
    \/ EditRegion
    \/ EditAddDoctor
    \/ EditRemoveDoctor
    \/ handleSave
    \/ \E dayOfWeek \in WeekDays : UpdateRepPlanOk(dayOfWeek)
    \/ UpdateRepPlanFail
    \/ ClearMessage
    \/ onPlanSaved
    \/ \E s \in Staff : FetchInitialData(s)
    \/ ReviewStep
    \/ RevokeStep
    \/ \E s \in Staff : ClearReviewMessage(s)

Spec == Init /\ [][Next]_vars

(***************************************************************************)
(* The editor on its own: every editing handler with every input, from    *)
(* the empty plan a representative without a stored plan starts with.     *)
(***************************************************************************)
InitEditor ==
    /\ store = [r \in Reps |-> IF r = Me THEN NoRow ELSE Row(OtherRepPlan, "rejected")]
    /\ plan = [isNull |-> FALSE, plan |-> EmptyPlan, status |-> "draft"]
    /\ view = "plan"
    /\ loading = FALSE
    /\ signedIn = {}
    /\ planData = EmptyPlan
    /\ saving = FALSE
    /\ message = ""
    /\ saveReq = NoReq
    /\ savedTimer = NoTimer
    /\ allPlans = [s \in Staff |-> NoLocal]
    /\ reviewMessage = [s \in Staff |-> ""]
    /\ FirstRender(0, 0)
    /\ timezone = 0
    /\ NoVisits
    /\ SignedInAuth
    /\ NoCache
    /\ NoForm
    /\ NoCalc
    /\ TodayMounted
    /\ lastOp = OtherOp
    /\ last = NoCall

editorFrame == <<store, repVars, saving, message, saveReq, savedTimer, staffVars, dateVars, visitVars, authVars, cacheVars, formVars, calcVars, todayVars, lastOp>>

RegionChangeStep ==
    \E d \in DayInputs, s \in RegionInputs :
        /\ Unobserved
        /\ handleRegionChange(d, s)
        /\ last' \in {NoCall, Call("handleRegionChange", d, s)}
        /\ UNCHANGED editorFrame

AddDoctorStep ==
    \E d \in DayInputs, s \in DoctorInputs :
        /\ Unobserved
        /\ handleAddDoctor(d, s)
        /\ last' \in {NoCall, Call("handleAddDoctor", d, s)}
        /\ UNCHANGED editorFrame

RemoveDoctorStep ==
    \E d \in DayInputs, id \in 1 .. NumDoctors + 1 :
        /\ Unobserved
        /\ handleRemoveDoctor(d, id)
        /\ last' \in {NoCall, Call("handleRemoveDoctor", d, ToStr(id))}
        /\ UNCHANGED editorFrame

NextEditor ==
    \/ RegionChangeStep
    \/ AddDoctorStep
    \/ RemoveDoctorStep

SpecEditor == InitEditor /\ [][NextEditor]_vars

(***************************************************************************)
(* The snapshot handleSave sends, from every working copy the editor can   *)
(* start with: a stored plan may lack keys, hold null and hold a key that  *)
(* is no day of the week.                                                  *)
(***************************************************************************)
\* what a key of a loaded plan object holds
DayValues == {Missing, Null, DayPlanDetails(1, <<1>>)}

InitSnapshot ==
    /\ planData \in [DayKeys -> DayValues]
    /\ plan = [isNull |-> FALSE, plan |-> planData, status |-> "draft"]
    /\ store = [r \in Reps |-> IF r = Me THEN Row(planData, "draft")
                                        ELSE Row(OtherRepPlan, "rejected")]
    /\ view = "plan"
    /\ loading = FALSE
    /\ signedIn = {}
    /\ saving = FALSE
    /\ message = ""
    /\ saveReq = NoReq
    /\ savedTimer = NoTimer
    /\ allPlans = [s \in Staff |-> NoLocal]
    /\ reviewMessage = [s \in Staff |-> ""]
    /\ FirstRender(0, 0)
    /\ timezone = 0
    /\ NoVisits
    /\ SignedInAuth
    /\ NoCache
    /\ NoForm
    /\ NoCalc
    /\ TodayMounted
    /\ lastOp = OtherOp
    /\ last = NoCall

NextSnapshot == handleSave

SpecSnapshot == InitSnapshot /\ [][NextSnapshot]_vars

(***************************************************************************)
(* The dates of RepDashboard: renders of one mounted dashboard while the   *)
(* days pass.                                                              *)
(***************************************************************************)
InitWeek ==
    /\ store = [r \in Reps |-> IF r = Me THEN NoRow ELSE Row(OtherRepPlan, "rejected")]
    /\ plan = NullPlan
    /\ view = "dashboard"
    /\ loading = TRUE
    /\ signedIn = {}
    /\ planData = EmptyPlan
    /\ saving = FALSE
    /\ message = ""
    /\ saveReq = NoReq
    /\ savedTimer = NoTimer
    /\ allPlans = [s \in Staff |-> NoLocal]
    /\ reviewMessage = [s \in Staff |-> ""]
    /\ \E t \in 0 .. 6, d \in 0 .. 7 : d \in {t, t + 1} /\ FirstRender(t, d)
    /\ timezone = 0
    /\ NoVisits
    /\ SignedInAuth
    /\ NoCache
    /\ NoForm
    /\ NoCalc
    /\ TodayMounted
    /\ lastOp = OtherOp
    /\ last = NoCall

weekFrame == <<store, repVars, editorVars, saveReq, savedTimer, staffVars, visitVars,
               authVars, cacheVars, formVars, calcVars, todayVars, lastOp, last>>

RenderStep == Render /\ UNCHANGED weekFrame

TickStep == Tick /\ UNCHANGED weekFrame

NextWeek ==
    \/ RenderStep
    \/ TickStep

SpecWeek == InitWeek /\ [][NextWeek]_vars

(***************************************************************************)
(* The planned doctors of today: one representative who plans, submits and *)
(* opens the new-visit modal while the days pass.                          *)
(***************************************************************************)
\* the day the representative plans: the Thursday of the week shown
TodayDayInputs == {WORK_WEEK_DAYS[6]}

\* the plan the representative submitted in an earlier session: region 1 and doctor 1
\* on the Thursday
EarlierPlan ==
    [d \in DayKeys |->
        IF d = WORK_WEEK_DAYS[6] THEN DayPlanDetails(1, <<1>>)
        ELSE IF d \in WorkWeekIndices THEN Null ELSE Missing]

\* the dashboard mounts on day t; the table holds no plan of the representative, or
\* the plan submitted for the week of day t, or the one submitted for the week before
InitToday ==
    /\ \E t \in 0 .. 6 :
           /\ FirstRender(t, t)
           /\ \E stored \in {{}, {t - ((getDay(t) + 1) % 7)}, {t - ((getDay(t) + 1) % 7) - 7}} :
                  /\ store = [r \in Reps |->
                                 IF r # Me THEN Row(OtherRepPlan, "rejected")
                                 ELSE IF stored = {} THEN NoRow
                                 ELSE Row(EarlierPlan, "pending")]
                  /\ planWeek = [req |-> {}, store |-> stored, plan |-> {}]
    /\ plan = NullPlan
    /\ view = "dashboard"
    /\ loading = TRUE
    /\ signedIn = {}
    /\ planData = EmptyPlan
    /\ saving = FALSE
    /\ message = ""
    /\ saveReq = NoReq
    /\ savedTimer = NoTimer
    /\ allPlans = [s \in Staff |-> NoLocal]
    /\ reviewMessage = [s \in Staff |-> ""]
    /\ timezone = 0
    /\ NoVisits
    /\ SignedInAuth
    /\ NoCache
    /\ NoForm
    /\ NoCalc
    /\ pendingDoctorsForToday = PendingMemo(plan, recentVisits, clock)
    /\ visitModal = [isModalOpen |-> FALSE, initialRegionForVisit |-> 0, now |-> 0]
    /\ lastOp = OtherOp
    /\ last = NoCall

todayFrame == <<store, repVars, editorVars, saveReq, savedTimer, staffVars, dateVars,
                visitVars, authVars, cacheVars, formVars, calcVars, lastOp, last>>

todayEditFrame == <<store, repVars, saving, message, saveReq, savedTimer, staffVars,
                    dateVars, visitVars, authVars, cacheVars, formVars, calcVars, todayVars, last>>

weeklyPlanClickStep == handleWeeklyPlanClick(getDay(today)) /\ lastOp' = OtherOp

todayEditRegion ==
    /\ Unobserved
    /\ EditorShown
    /\ \E d \in TodayDayInputs : handleRegionChange(d, ToStr(1))
    /\ lastOp' = OtherOp
    /\ UNCHANGED todayEditFrame

todayEditAddDoctor ==
    /\ Unobserved
    /\ EditorShown
    /\ \E d \in TodayDayInputs : handleAddDoctor(d, ToStr(1))
    /\ lastOp' = OtherOp
    /\ UNCHANGED todayEditFrame

updateRepPlanOkStep == UpdateRepPlanOk(getDay(clock))

newVisitClickStep == newVisitClick /\ UNCHANGED todayFrame

closeVisitModalStep == closeVisitModal /\ UNCHANGED todayFrame

NextToday ==
    \/ FetchDataOk
    \/ weeklyPlanClickStep
    \/ onBack
    \/ todayEditRegion
    \/ todayEditAddDoctor
    \/ handleSave
    \/ updateRepPlanOkStep
    \/ onPlanSaved
    \/ newVisitClickStep
    \/ closeVisitModalStep

SpecToday == InitToday /\ [][NextToday]_vars

(***************************************************************************)
(* The week computations on their own: every day 0 .. MaxDay, and the      *)
(* labels of every day index for every start date RepDashboard passes.     *)
(***************************************************************************)
InitCalc ==
    /\ store = [r \in Reps |-> IF r = Me THEN NoRow ELSE Row(OtherRepPlan, "rejected")]
    /\ plan = NullPlan
    /\ view = "dashboard"
    /\ loading = TRUE
    /\ signedIn = {}
    /\ planData = EmptyPlan
    /\ saving = FALSE
    /\ message = ""
    /\ saveReq = NoReq
    /\ savedTimer = NoTimer
    /\ allPlans = [s \in Staff |-> NoLocal]
    /\ reviewMessage = [s \in Staff |-> ""]
    /\ FirstRender(0, 0)
    /\ timezone = 0
    /\ NoVisits
    /\ SignedInAuth
    /\ NoCache
    /\ NoForm
    /\ NoCalc
    /\ TodayMounted
    /\ lastOp = OtherOp
    /\ last = NoCall

calcFrame == <<store, repVars, editorVars, saveReq, savedTimer, staffVars, dateVars,
               visitVars, authVars, cacheVars, formVars, todayVars, lastOp, last>>

\* the start dates PlanEditor is given: the memo of RepDashboard, on any day
PlanStartDates == {computePlanStartDate(isPlanningTime(getDay(d)), d) : d \in 0 .. MaxDay}

computeWeekStartsStep ==
    /\ \E d \in 0 .. MaxDay : computeWeekStarts(d)
    /\ UNCHANGED calcFrame

renderDayDateLabelStep ==
    /\ \E startDate \in PlanStartDates, dayIndex \in WorkWeekIndices :
           renderDayDateLabel(startDate, dayIndex)
    /\ UNCHANGED calcFrame

NextCalc ==
    \/ computeWeekStartsStep
    \/ renderDayDateLabelStep

SpecCalc == InitCalc /\ [][NextCalc]_vars

(***************************************************************************)
(* cacheService on its own: any calls, with time advancing.                *)
(***************************************************************************)
InitCache ==
    /\ store = [r \in Reps |-> IF r = Me THEN NoRow ELSE Row(OtherRepPlan, "rejected")]
    /\ plan = NullPlan
    /\ view = "dashboard"
    /\ loading = TRUE
    /\ signedIn = {}
    /\ planData = EmptyPlan
    /\ saving = FALSE
    /\ message = ""
    /\ saveReq = NoReq
    /\ savedTimer = NoTimer
    /\ allPlans = [s \in Staff |-> NoLocal]
    /\ reviewMessage = [s \in Staff |-> ""]
    /\ FirstRender(0, 0)
    /\ timezone = 0
    /\ NoVisits
    /\ SignedInAuth
    /\ NoCache
    /\ NoForm
    /\ NoCalc
    /\ TodayMounted
    /\ lastOp = OtherOp
    /\ last = NoCall

cacheFrame == <<store, repVars, editorVars, saveReq, savedTimer, staffVars, dateVars,
                visitVars, authVars, formVars, calcVars, todayVars, lastOp, last>>

\* the customExpiry arguments: 0, and times up to the last one the clock reaches
CustomExpiries == 0 .. MaxNow

cacheGetStep == (\E key \in CacheKeys : cacheGet(key)) /\ UNCHANGED cacheFrame

cacheSetStep ==
    /\ \E key \in CacheKeys, data \in CacheData :
           \/ cacheSet(key, data, FALSE, 0)
           \/ \E customExpiry \in CustomExpiries : cacheSet(key, data, TRUE, customExpiry)
    /\ UNCHANGED cacheFrame

cacheRemoveStep == (\E key \in CacheKeys : cacheRemove(key)) /\ UNCHANGED cacheFrame

cacheClearStep == cacheClear /\ UNCHANGED cacheFrame

cacheHasStep == (\E key \in CacheKeys : cacheHas(key)) /\ UNCHANGED cacheFrame

cacheTickStep == cacheTick /\ UNCHANGED cacheFrame

NextCache ==
    \/ cacheGetStep
    \/ cacheSetStep
    \/ cacheRemoveStep
    \/ cacheClearStep
    \/ cacheHasStep
    \/ cacheTickStep

SpecCache == InitCache /\ [][NextCache]_vars

(***************************************************************************)
(* The product checkboxes and the target-type switch of VisitForm.         *)
(***************************************************************************)
InitForm ==
    /\ store = [r \in Reps |-> IF r = Me THEN NoRow ELSE Row(OtherRepPlan, "rejected")]
    /\ plan = NullPlan
    /\ view = "dashboard"
    /\ loading = TRUE
    /\ signedIn = {}
    /\ planData = EmptyPlan
    /\ saving = FALSE
    /\ message = ""
    /\ saveReq = NoReq
    /\ savedTimer = NoTimer
    /\ allPlans = [s \in Staff |-> NoLocal]
    /\ reviewMessage = [s \in Staff |-> ""]
    /\ FirstRender(0, 0)
    /\ timezone = 0
    /\ NoVisits
    /\ SignedInAuth
    /\ NoCache
    /\ NoForm
    /\ NoCalc
    /\ TodayMounted
    /\ lastOp = OtherOp
    /\ last = NoCall

formFrame == <<store, repVars, editorVars, saveReq, savedTimer, staffVars, dateVars,
               visitVars, authVars, cacheVars, calcVars, todayVars, lastOp, last>>

handleProductChangeStep ==
    /\ \E productId \in Products : handleProductChange(productId)
    /\ UNCHANGED formFrame

handleTargetTypeSwitchStep ==
    /\ \E type \in {"doctor", "pharmacy"} : handleTargetTypeSwitch(type)
    /\ UNCHANGED formFrame

NextForm ==
    \/ handleProductChangeStep
    \/ handleTargetTypeSwitchStep

SpecForm == InitForm /\ [][NextForm]_vars

(***************************************************************************)
(* The visit statistics, from every list of up to MaxVisits reports.       *)
(***************************************************************************)
Times == 1 .. MaxTime

\* the reports a list is drawn from: at every time a visit to doctor a by r1, a visit
\* to doctor b by r2 and a visit to pharmacy a by r1
ReportKinds ==
    [k \in 1 .. 3 * MaxTime |->
        LET t == ((k - 1) \div 3) + 1
            c == (k - 1) % 3
        IN  IF c = 0 THEN VisitReport(t, "DOCTOR_VISIT", "a", "r1")
            ELSE IF c = 1 THEN VisitReport(t, "DOCTOR_VISIT", "b", "r2")
            ELSE VisitReport(t, "PHARMACY_VISIT", "a", "r1")]

\* the lists of up to MaxVisits reports, oldest first
VisitLists ==
    UNION {{[i \in 1 .. n |-> ReportKinds[f[i]]] :
               f \in {g \in [1 .. n -> 1 .. 3 * MaxTime] :
                          \A i \in 1 .. n - 1 : g[i] <= g[i + 1]}} : n \in 0 .. MaxVisits}

\* the offsets from UTC: half a day behind, none, half a day ahead
Timezones == {-1, 0, 1}

InitVisits ==
    /\ store = [r \in Reps |-> IF r = Me THEN NoRow ELSE Row(OtherRepPlan, "rejected")]
    /\ plan = NullPlan
    /\ view = "dashboard"
    /\ loading = TRUE
    /\ signedIn = {}
    /\ planData = EmptyPlan
    /\ saving = FALSE
    /\ message = ""
    /\ saveReq = NoReq
    /\ savedTimer = NoTimer
    /\ allPlans = [s \in Staff |-> NoLocal]
    /\ reviewMessage = [s \in Staff |-> ""]
    /\ FirstRender(0, 0)
    /\ timezone \in Timezones
    /\ NoVisits
    /\ SignedInAuth
    /\ NoCache
    /\ NoForm
    /\ NoCalc
    /\ TodayMounted
    /\ lastOp = OtherOp
    /\ last = NoCall

visitFrame == <<store, repVars, editorVars, saveReq, savedTimer, staffVars, dateVars,
                authVars, cacheVars, formVars, calcVars, todayVars, lastOp, last>>

\* one fetch is followed: a later fetch replaces the list and computes the memos anew
BeforeFetch == statsToday = 0 /\ managerStats = NoStats

RepStatsStep ==
    /\ BeforeFetch
    /\ \E visits \in VisitLists, t \in Times : SetRecentVisits(visits, t)
    /\ UNCHANGED visitFrame

ManagerStatsStep ==
    /\ BeforeFetch
    /\ \E reports \in VisitLists, selected \in {"all"} \cup Reps :
           SetAllReports(reports, selected, MaxTime - 1)
    /\ UNCHANGED visitFrame

NextVisits ==
    \/ RepStatsStep
    \/ ManagerStatsStep

SpecVisits == InitVisits /\ [][NextVisits]_vars

(***************************************************************************)
(* AuthProvider on its own: from its construction, with either provider,   *)
(* configured or not, with or without a stored session.                    *)
(***************************************************************************)
InitAuth ==
    /\ store = [r \in Reps |-> IF r = Me THEN NoRow ELSE Row(OtherRepPlan, "rejected")]
    /\ plan = NullPlan
    /\ view = "dashboard"
    /\ loading = TRUE
    /\ signedIn = {}
    /\ planData = EmptyPlan
    /\ saving = FALSE
    /\ message = ""
    /\ saveReq = NoReq
    /\ savedTimer = NoTimer
    /\ allPlans = [s \in Staff |-> NoLocal]
    /\ reviewMessage = [s \in Staff |-> ""]
    /\ FirstRender(0, 0)
    /\ timezone = 0
    /\ NoVisits
    /\ \E provider \in Providers, configured \in BOOLEAN, stored \in BOOLEAN :
           AuthConstructed(provider, configured, stored)
    /\ NoCache
    /\ NoForm
    /\ NoCalc
    /\ TodayMounted
    /\ lastOp = OtherOp
    /\ last = NoCall

authFrame == <<store, repVars, editorVars, saveReq, savedTimer, staffVars, dateVars,
               visitVars, cacheVars, formVars, calcVars, todayVars, lastOp, last>>

initAuthStartStep == initAuthStart /\ UNCHANGED authFrame

getSessionSettlesStep ==
    \E outcome \in {"session", "noSession", "error", "throws"} :
        getSessionSettles(outcome) /\ UNCHANGED authFrame

getSessionTimeoutStep == getSessionTimeout /\ UNCHANGED authFrame

signOutSettlesStep ==
    \E resolved \in BOOLEAN, emitted \in BOOLEAN :
        signOutSettles(resolved, emitted) /\ UNCHANGED authFrame

initProfileSettlesStep ==
    \E outcome \in {"profile", "rls_error", "other"} :
        initProfileSettles(outcome) /\ UNCHANGED authFrame

getSessionAttemptStep ==
    \E outcome \in {"session", "noSession", "error", "throws"} :
        getSessionAttempt(outcome) /\ UNCHANGED authFrame

retryDelayStep ==
    \E msg \in {"auth_timeout", "rls_error", "other"} :
        retryDelay(msg) /\ UNCHANGED authFrame

loginStep ==
    \E signed \in BOOLEAN, profile \in BOOLEAN :
        login(signed, profile) /\ UNCHANGED authFrame

logoutStep == \E signedOut \in BOOLEAN : logout(signedOut) /\ UNCHANGED authFrame

tokenRefreshedStep == tokenRefreshed /\ UNCHANGED authFrame

onAuthStateChangeStep == onAuthStateChange /\ UNCHANGED authFrame

handlerProfileSettlesStep ==
    \E ok \in BOOLEAN : handlerProfileSettles(ok) /\ UNCHANGED authFrame

NextAuth ==
    \/ initAuthStartStep
    \/ getSessionSettlesStep
    \/ getSessionTimeoutStep
    \/ signOutSettlesStep
    \/ initProfileSettlesStep
    \/ getSessionAttemptStep
    \/ retryDelayStep
    \/ loginStep
    \/ logoutStep
    \/ tokenRefreshedStep
    \/ onAuthStateChangeStep
    \/ handlerProfileSettlesStep

SpecAuth == InitAuth /\ [][NextAuth]_vars

\* the effect runs after the mount; the race of useAuth.tsx settles, by the timer at
\* the latest; every remote call the timer does not cover settles; the delay of the
\* retry loop ends
SpecAuthLive ==
    /\ SpecAuth
    /\ WF_vars(initAuthStartStep)
    /\ WF_vars(getSessionSettlesStep \/ getSessionTimeoutStep)
    /\ WF_vars(signOutSettlesStep)
    /\ WF_vars(initProfileSettlesStep)
    /\ WF_vars(getSessionAttemptStep)
    /\ WF_vars(retryDelayStep)

(***************************************************************************)
(* Properties of the editing handlers (SpecEditor).                        *)
(***************************************************************************)
\* the positions of a plan that hold a doctor id
Slots(p) == {<<d, i>> : d \in DayKeys, i \in 1 .. NumDoctors + 2} \cap
            {sl \in DayKeys \X (1 .. NumDoctors + 2) :
                IsDetails(p[sl[1]]) /\ sl[2] <= Len(p[sl[1]].doctorIds)}

\* the days of plan p that list doctor x
DaysOf(p, x) == {d \in DayKeys : IsDetails(p[d]) /\ Includes(p[d].doctorIds, x)}

\* a decimal numeral, and the number it writes
IsNumeral(str) == \E n \in 0 .. 99 : ToStr(n) = str
NumeralValue(str) == CHOOSE n \in 0 .. 99 : ToStr(n) = str

\* C1: every doctor id occurs at most once in the whole plan: in at most one day's
\* list and at most once inside that list.
C1_CrossDayUnique ==
    \A a \in Slots(planData), b \in Slots(planData) :
        a # b => planData[a[1]].doctorIds[a[2]] # planData[b[1]].doctorIds[b[2]]

\* a doctor listed under one day was offered to another day, and the plan kept it once
C1_Witness ==
    /\ last.op = "handleAddDoctor"
    /\ IsNumeral(last.arg)
    /\ DaysOf(last.before, NumeralValue(last.arg)) # {}
    /\ last.dayIndex \notin DaysOf(last.before, NumeralValue(last.arg))
    /\ IsDetails(last.before[last.dayIndex])
    /\ Cardinality(DaysOf(planData, NumeralValue(last.arg))) = 1

\* C2: every doctor listed under a day belongs to the region assigned to that day.
C2_RegionMembership ==
    \A d \in DayKeys :
        IsDetails(planData[d]) =>
            \A i \in 1 .. Len(planData[d].doctorIds) :
                LET id == planData[d].doctorIds[i]
                IN  id \in 1 .. NumDoctors => DoctorRegion(id) = planData[d].regionId

\* C9: after setDayRegion(D, r) day D is the null marker when r is 'none' or no
\* number, keeps its entry when r is the region it already had, has region r and no
\* clients otherwise; every other day is unchanged.
C9_SetDayRegionPost ==
    last.op = "handleRegionChange" =>
        LET D == last.dayIndex
            old == last.before[D]
        IN  /\ \A d \in DayKeys \ {D} : planData[d] = last.before[d]
            /\ ~IsNumeral(last.arg) => planData[D] = Null
            /\ IsNumeral(last.arg) =>
                  IF IsDetails(old) /\ old.regionId = NumeralValue(last.arg)
                  THEN planData[D] = old
                  ELSE planData[D] = DayPlanDetails(NumeralValue(last.arg), <<>>)

\* a day with two clients was given another region and lost them
C9_Witness ==
    /\ last.op = "handleRegionChange"
    /\ IsNumeral(last.arg)
    /\ IsDetails(last.before[last.dayIndex])
    /\ Len(last.before[last.dayIndex].doctorIds) = 2
    /\ last.before[last.dayIndex].regionId # NumeralValue(last.arg)
    /\ planData[last.dayIndex].doctorIds = <<>>

\* C10: an addition of a doctor who is already assigned to some day, or whose id is
\* no number, or who is unknown while the day has no assignment, leaves the whole
\* plan as it was.
C10_RejectedAddNoOp ==
    last.op = "handleAddDoctor" =>
        LET rejected ==
                \/ ~IsNumeral(last.arg)
                \/ /\ IsNumeral(last.arg)
                   /\ \/ DaysOf(last.before, NumeralValue(last.arg)) # {}
                      \/ /\ ~IsDetails(last.before[last.dayIndex])
                         /\ NumeralValue(last.arg) \notin 1 .. NumDoctors
        IN  rejected => planData = last.before

\* an unknown doctor was offered to a day without assignment while another day is planned
C10_Witness ==
    /\ last.op = "handleAddDoctor"
    /\ IsNumeral(last.arg)
    /\ NumeralValue(last.arg) \notin 1 .. NumDoctors
    /\ ~IsDetails(last.before[last.dayIndex])
    /\ \E d \in DayKeys : IsDetails(last.before[d]) /\ Len(last.before[d].doctorIds) > 0
    /\ planData = last.before

\* C11: a known doctor who is assigned nowhere, added to a day without assignment,
\* makes the day {the doctor's own region, [the doctor]}; an accepted doctor added to a
\* day with an assignment is appended at the end and the day keeps its region.
C11_AddSeedsOrAppends ==
    (last.op = "handleAddDoctor" /\ IsNumeral(last.arg)) =>
        LET D == last.dayIndex
            X == NumeralValue(last.arg)
            old == last.before[D]
            free == DaysOf(last.before, X) = {}
        IN  /\ (free /\ ~IsDetails(old) /\ X \in 1 .. NumDoctors) =>
                  planData[D] = DayPlanDetails(DoctorRegion(X), <<X>>)
            /\ (free /\ IsDetails(old)) =>
                  /\ planData[D].regionId = old.regionId
                  /\ Len(planData[D].doctorIds) = Len(old.doctorIds) + 1
                  /\ planData[D].doctorIds[Len(old.doctorIds) + 1] = X
                  /\ \A i \in 1 .. Len(old.doctorIds) :
                        planData[D].doctorIds[i] = old.doctorIds[i]

\* a known doctor was appended to a day that already listed another one
C11_Witness ==
    /\ last.op = "handleAddDoctor"
    /\ IsNumeral(last.arg)
    /\ NumeralValue(last.arg) \in 1 .. NumDoctors
    /\ IsDetails(last.before[last.dayIndex])
    /\ Len(last.before[last.dayIndex].doctorIds) = 1
    /\ Len(planData[last.dayIndex].doctorIds) = 2
    /\ planData[last.dayIndex].doctorIds[2] = NumeralValue(last.arg)

\* C12: removeClientFromDay(D, X) removes exactly X from D's list and keeps the order
\* of the others, D's region and every other day; when X is not listed or D has no
\* assignment the plan is unchanged; removing X again changes nothing.
C12_RemoveExactly ==
    last.op = "handleRemoveDoctor" =>
        LET D == last.dayIndex
            X == NumeralValue(last.arg)
            old == last.before[D]
        IN  /\ \A d \in DayKeys \ {D} : planData[d] = last.before[d]
            /\ ~IsDetails(old) => planData[D] = old
            /\ IsDetails(old) =>
                  /\ IsDetails(planData[D])
                  /\ planData[D].regionId = old.regionId
                  /\ IF \E k \in 1 .. Len(old.doctorIds) : old.doctorIds[k] = X
                     THEN \E k \in 1 .. Len(old.doctorIds) :
                              /\ old.doctorIds[k] = X
                              /\ planData[D].doctorIds =
                                     SubSeq(old.doctorIds, 1, k - 1) \o
                                     SubSeq(old.doctorIds, k + 1, Len(old.doctorIds))
                     ELSE planData[D].doctorIds = old.doctorIds
            /\ RemoveDoctor(planData, D, X) = planData

\* the first of two clients of a day was removed and the second stayed
C12_Witness ==
    /\ last.op = "handleRemoveDoctor"
    /\ IsDetails(last.before[last.dayIndex])
    /\ Len(last.before[last.dayIndex].doctorIds) = 2
    /\ last.before[last.dayIndex].doctorIds[1] = NumeralValue(last.arg)
    /\ planData[last.dayIndex].doctorIds = <<last.before[last.dayIndex].doctorIds[2]>>

(***************************************************************************)
(* Properties of the snapshot (SpecSnapshot).                              *)
(***************************************************************************)
\* C13: the snapshot sent on submit has exactly the keys 0 .. 6, each mapped to the
\* day's assignment when the working copy holds one and to null otherwise, whatever
\* the working copy held under missing keys, null entries and keys outside 0 .. 6.
C13_SnapshotNormalised ==
    saveReq.active =>
        \A k \in DayKeys :
            IF k \in 0 .. 6
            THEN saveReq.plan[k] = IF planData[k].kind = "details" THEN planData[k] ELSE Null
            ELSE saveReq.plan[k] = Missing

\* a working copy with a missing day, a null day, a planned day and a key outside the
\* week was sent
C13_Witness ==
    /\ saveReq.active
    /\ planData[7] = DayPlanDetails(1, <<1>>)
    /\ planData[0] = Missing
    /\ planData[1] = Null
    /\ planData[6] = DayPlanDetails(1, <<1>>)
    /\ saveReq.plan[7] = Missing
    /\ saveReq.plan[0] = Null

(***************************************************************************)
(* Properties of the dates (SpecWeek). Day 0 is Thursday 1970-01-01, so    *)
(* day n is a Thursday when n % 7 = 0, a Friday when it is 1, a Saturday   *)
(* when it is 2 and a Wednesday when it is 6.                              *)
(***************************************************************************)
\* C14: the planning flag is true exactly on Thursday (weekday 4) and Friday (weekday
\* 5): for every weekday 0 .. 6, and for the day of every render.
C14_PlanningWindow ==
    /\ \A w \in 0 .. 6 : isPlanningTime(w) <=> w \in {4, 5}
    /\ isPlanningTime(getDay(today)) <=> today % 7 \in {0, 1}

\* a render on a Friday of the second week is in the planning window
C14_Witness ==
    /\ today >= 7
    /\ today % 7 = 1
    /\ isPlanningTime(getDay(today))

\* C15: in the planning window the week start is the upcoming Saturday: two days after
\* a Thursday, one day after a Friday, always a Saturday strictly after the day it is
\* computed on.
C15_UpcomingSaturday ==
    planStartDate.isPlanningTime =>
        /\ planStartDate.date % 7 = 2
        /\ planStartDate.date > planStartDate.now
        /\ planStartDate.now % 7 = 0 => planStartDate.date = planStartDate.now + 2
        /\ planStartDate.now % 7 = 1 => planStartDate.date = planStartDate.now + 1

\* the week start was computed on a Thursday after the days before it were rendered
C15_Witness ==
    /\ planStartDate.isPlanningTime
    /\ planStartDate.now = 7
    /\ today = 7
    /\ planStartDate.date = 9

\* C16: outside the planning window, Saturday through Wednesday, the week start is the
\* most recent Saturday on or before the day it is computed on: a Saturday, 0 to 4 days
\* before, and that very day on a Saturday.
C16_RecentSaturday ==
    (~planStartDate.isPlanningTime /\ planStartDate.now % 7 \in {2, 3, 4, 5, 6}) =>
        /\ planStartDate.date % 7 = 2
        /\ planStartDate.now - planStartDate.date \in 0 .. 4
        /\ planStartDate.now % 7 = 2 => planStartDate.date = planStartDate.now

\* the week start was computed on the Saturday after a planning window and is that day
C16_Witness ==
    /\ ~planStartDate.isPlanningTime
    /\ planStartDate.now = 9
    /\ today = 9
    /\ planStartDate.date = 9

\* C22: for every render the week start shown equals the value defined for the day of
\* that render: the first Saturday after it on a Thursday or Friday, the last Saturday
\* on or before it on every other day; also when midnight passes between the two
\* clock reads and when the dashboard stays mounted over several days.
C22_OneNow ==
    LET Saturdays == {n \in -7 .. MaxDay + 7 : n % 7 = 2}
        expected == IF today % 7 \in {0, 1}
                    THEN CHOOSE n \in Saturdays : n > today /\ n <= today + 7
                    ELSE CHOOSE n \in Saturdays : n <= today /\ n > today - 7
    IN  planStartDate.date = expected

(***************************************************************************)
(* Properties of the visit statistics (SpecVisits). The month-to-date      *)
(* window of a time t holds the visits of the local month of t that are    *)
(* not later than t.                                                       *)
(***************************************************************************)
\* the local calendar date of a time, and the local month of a time
LocalDate(t) == (t + timezone) \div 2
LocalMonth(t) == LocalDate(t) \div DaysPerMonth

\* the positions of a list whose visit lies in the month-to-date window of t
Window(visits, t) ==
    {i \in 1 .. Len(visits) :
        LocalMonth(visits[i].date) = LocalMonth(t) /\ visits[i].date <= t}

\* the frequency buckets are right for a list: every name with n >= 1 doctor visits in
\* the window is in the bucket of n, and in that bucket alone
BucketsRight(freq, visits, t) ==
    LET n(name) == Cardinality({i \in Window(visits, t) :
                        visits[i].type = "DOCTOR_VISIT" /\ visits[i].targetName = name})
    IN  /\ freq.freq1 = Cardinality({name \in TargetNames : n(name) = 1})
        /\ freq.freq2 = Cardinality({name \in TargetNames : n(name) = 2})
        /\ freq.freq3 = Cardinality({name \in TargetNames : n(name) >= 3})
        /\ freq.freq1 + freq.freq2 + freq.freq3 =
               Cardinality({name \in TargetNames : n(name) >= 1})

\* C18: over the doctor visits of the month-to-date window every target name with
\* n >= 1 visits is counted in exactly one bucket (freq1 for 1, freq2 for 2, freq3 for 3
\* or more), the buckets add up to the number of names visited, and pharmacy visits
\* and visits outside the window do not count; in RepDashboard and, over the reports of
\* the selected representative, in ManagerDashboard.
C18_FrequencyBuckets ==
    /\ statsToday > 0 => BucketsRight(visitFrequency, recentVisits, statsToday)
    /\ managerStats.today > 0 =>
           BucketsRight(managerStats.visitFrequency,
                        SelectSeq(allReports,
                                  LAMBDA r : selectedRep = "all" \/ r.repName = selectedRep),
                        managerStats.today)

\* a doctor visited twice this month and once before it is in the bucket of two, next
\* to nothing else
C18_Witness ==
    /\ statsToday > 0
    /\ Len(recentVisits) = 3
    /\ \A i \in 1 .. 3 : recentVisits[i].type = "DOCTOR_VISIT" /\ recentVisits[i].targetName = "a"
    /\ Cardinality(Window(recentVisits, statsToday)) = 2
    /\ visitFrequency = [freq1 |-> 0, freq2 |-> 1, freq3 |-> 0]

\* C19: visitsPerWorkingDay is the number of doctor and pharmacy visits of the
\* month-to-date window divided by the number of distinct calendar dates of those
\* visits; it is 0 when the window holds no visit, its divisor is never 0, and it is at
\* least 1 when a visit is counted.
C19_WorkingDayRate ==
    statsToday > 0 =>
        LET W == Window(recentVisits, statsToday)
            total == Cardinality(W)
            dates == {LocalDate(recentVisits[i].date) : i \in W}
            rate == monthlyCounts.visitsPerWorkingDay
        IN  /\ rate.den # 0
            /\ total = 0 => rate.num = 0
            /\ total > 0 => rate.num * Cardinality(dates) = total * rate.den
            /\ total > 0 => rate.num >= rate.den

(***************************************************************************)
(* Properties of the approval workflow (Spec).                             *)
(***************************************************************************)
\* the role of the actor of a recorded call
ActorRole(by) == IF by \in Staff THEN RoleOf(by) ELSE "REP"

\* the status a representative's plan has before a call: draft when none is stored
StatusBefore == lastOp.storeBefore[lastOp.rep].status

IsTransitionAttempt ==
    lastOp.handler \in {"updateRepPlan", "handleReviewPlan", "handleRevokeApproval"}

\* Thursday or Friday
InPlanningWindow(day) == day \in {4, 5}

\* C3: a transition attempted from a (status, actor, trigger) combination that is no
\* row of the lifecycle table (submit by the representative from draft or rejected;
\* approve or reject by a manager or supervisor from pending; revoke by a manager
\* from approved) leaves the stored status unchanged.
C3_LifecycleLegality ==
    LET status == StatusBefore
        role == ActorRole(lastOp.by)
        trigger == lastOp.arg
        inTable ==
            \/ trigger = "submit" /\ role = "REP" /\ status \in {"draft", "rejected"}
            \/ /\ trigger \in {"approved", "rejected"}
               /\ role \in {"MANAGER", "SUPERVISOR"}
               /\ status = "pending"
            \/ trigger = "revoke" /\ role = "MANAGER" /\ status = "approved"
    IN  (IsTransitionAttempt /\ ~inTable) => store[lastOp.rep].status = StatusBefore

\* C4: after a successful submit from draft or rejected the stored record of the
\* representative is the submitted snapshot with status pending, and so is the
\* record the call returned.
C4_SubmitStoresPending ==
    (lastOp.handler = "updateRepPlan" /\ lastOp.ok /\ StatusBefore \in {"draft", "rejected"})
        => /\ store[Me] = Row(lastOp.plan, "pending")
           /\ savedTimer.active
           /\ savedTimer.plan = [isNull |-> FALSE, plan |-> lastOp.plan, status |-> "pending"]

\* a rejected plan was changed and submitted again
C4_Witness ==
    /\ lastOp.handler = "updateRepPlan"
    /\ lastOp.ok
    /\ lastOp.storeBefore[Me].exists
    /\ StatusBefore = "rejected"
    /\ lastOp.plan # lastOp.storeBefore[Me].plan
    /\ store[Me].status = "pending"

\* C5: the weekly plan button opens the editor if and only if there is no plan, or
\* its status is not approved, or today is Thursday or Friday; otherwise it opens the
\* read-only weekly view.
C5_Editability ==
    lastOp.handler = "handleWeeklyPlanClick" =>
        LET editable == plan.isNull \/ plan.status # "approved"
                        \/ InPlanningWindow(lastOp.dayOfWeek)
        IN  /\ editable <=> view = "plan"
            /\ ~editable <=> view = "weekly"

\* an approved plan asked for on a day outside the planning window
C5_Witness ==
    /\ lastOp.handler = "handleWeeklyPlanClick"
    /\ ~plan.isNull
    /\ plan.status = "approved"
    /\ ~InPlanningWindow(lastOp.dayOfWeek)
    /\ view = "weekly"

\* C6: while the stored status is approved and the day is outside the planning
\* window, no action of the representative changes the stored plan or status.
C6_ApprovedReadOnly ==
    (/\ lastOp.by = Me
     /\ lastOp.storeBefore[Me].exists
     /\ lastOp.storeBefore[Me].status = "approved"
     /\ ~InPlanningWindow(lastOp.dayOfWeek))
        => store[Me] = lastOp.storeBefore[Me]

\* C7: handleRevokeApproval by a user who is no manager makes no remote call, changes
\* neither the stored nor the local plans and shows the permission-denied message; by a
\* manager on an approved plan it makes the status draft.
C7_RevokeManagerOnly ==
    lastOp.handler = "handleRevokeApproval" =>
        /\ ActorRole(lastOp.by) # "MANAGER" =>
              /\ ~lastOp.called
              /\ store = lastOp.storeBefore
              /\ allPlans[lastOp.by] = lastOp.localBefore
              /\ reviewMessage[lastOp.by] = "error_permission_denied"
        /\ (ActorRole(lastOp.by) = "MANAGER" /\ lastOp.ok /\ StatusBefore = "approved") =>
              /\ store[lastOp.rep].status = "draft"
              /\ allPlans[lastOp.by][lastOp.rep].status = "draft"

\* a supervisor asked to revoke a plan that is approved in the table
C7_Witness ==
    /\ lastOp.handler = "handleRevokeApproval"
    /\ ActorRole(lastOp.by) = "SUPERVISOR"
    /\ store[lastOp.rep].exists
    /\ store[lastOp.rep].status = "approved"
    /\ reviewMessage[lastOp.by] = "error_permission_denied"

\* C8: approve, reject and revoke change the status only: the plan content of the
\* representative is the same before and after, in the table and in the local copy
\* of the manager, and the plans of the other representatives are unchanged.
C8_StatusOnly ==
    (lastOp.handler \in {"handleReviewPlan", "handleRevokeApproval"} /\ lastOp.ok) =>
        /\ store[lastOp.rep].exists
        /\ store[lastOp.rep].plan = lastOp.storeBefore[lastOp.rep].plan
        /\ allPlans[lastOp.by][lastOp.rep].plan = lastOp.localBefore[lastOp.rep].plan
        /\ \A r \in Reps \ {lastOp.rep} :
              /\ store[r] = lastOp.storeBefore[r]
              /\ allPlans[lastOp.by][r] = lastOp.localBefore[r]

\* a plan with a planned day was approved, and the local copy was stale
C8_Witness ==
    /\ lastOp.handler = "handleReviewPlan"
    /\ lastOp.ok
    /\ lastOp.arg = "approved"
    /\ \E d \in DayKeys : IsDetails(store[lastOp.rep].plan[d])
    /\ allPlans[lastOp.by][lastOp.rep].plan # store[lastOp.rep].plan
    /\ store[lastOp.rep].status = "approved"
    /\ \E r \in Reps \ {lastOp.rep} : store[r].exists

\* C17: the lifecycle from end to end. A representative without a stored plan is shown
\* {plan: {}, status: draft}; a successful submit leaves the submitted snapshot in the
\* table with status pending; an approval leaves that content with status approved; and
\* once the stored plan is approved the weekly plan button gives the representative the
\* read-only view on every day outside the planning window.
C17_EndToEnd ==
    /\ (~store[Me].exists /\ ~plan.isNull) =>
            plan = [isNull |-> FALSE, plan |-> EmptyPlan, status |-> "draft"]
    /\ (lastOp.handler = "updateRepPlan" /\ lastOp.ok /\ ~lastOp.storeBefore[Me].exists) =>
            store[Me] = Row(lastOp.plan, "pending")
    /\ (lastOp.handler = "handleReviewPlan" /\ lastOp.ok /\ lastOp.arg = "approved"
            /\ lastOp.rep = Me) =>
            store[Me] = Row(lastOp.storeBefore[Me].plan, "approved")
    /\ (lastOp.handler = "handleWeeklyPlanClick" /\ store[Me].exists
            /\ store[Me].status = "approved" /\ ~InPlanningWindow(lastOp.dayOfWeek)) =>
            view = "weekly"

\* C20: the last writer wins. Every write that reaches the table is applied, whatever
\* the stored status is and however old the view of the writer: after a submission the
\* row holds the plan sent and status pending, after an approval, a rejection or a
\* revocation it holds the status written and the plan of the latest submission.
C20_LastWriterWins ==
    (lastOp.called /\ lastOp.ok) =>
        /\ lastOp.handler = "updateRepPlan" =>
              store[lastOp.rep] = Row(lastOp.plan, "pending")
        /\ lastOp.handler = "handleReviewPlan" =>
              store[lastOp.rep] = Row(lastOp.storeBefore[lastOp.rep].plan, lastOp.arg)
        /\ lastOp.handler = "handleRevokeApproval" =>
              store[lastOp.rep] = Row(lastOp.storeBefore[lastOp.rep].plan, "draft")

\* a manager revoked from a list that showed approved while the table already held a
\* later submission, pending with another plan
C20_Witness ==
    /\ lastOp.handler = "handleRevokeApproval"
    /\ lastOp.ok
    /\ lastOp.localBefore[lastOp.rep].status = "approved"
    /\ lastOp.storeBefore[lastOp.rep].status = "pending"
    /\ lastOp.storeBefore[lastOp.rep].plan # lastOp.localBefore[lastOp.rep].plan
    /\ store[lastOp.rep] = Row(lastOp.storeBefore[lastOp.rep].plan, "draft")

\* C25: an approve or reject takes effect only when the stored status at the time of
\* the write is pending, a revoke only when it is approved, also when the list the
\* actor sees is older than the table; otherwise the table is left as it was.
C25_FromSourceState ==
    (lastOp.called /\ lastOp.handler \in {"handleReviewPlan", "handleRevokeApproval"}) =>
        LET source == IF lastOp.handler = "handleReviewPlan" THEN "pending" ELSE "approved"
        IN  lastOp.storeBefore[lastOp.rep].status # source => store = lastOp.storeBefore

C23_NoResidualAuth == authLog.loggedOut => auth.user = "null"

C28_TimeoutOutcome ==
    (authLog.timedOut /\ initAuth.pc = "done" /\ ~authLog.userActed) =>
        auth = AuthState("null", FALSE, "auth_timeout_error")

(***************************************************************************)
(* Properties of the planned doctors of today (SpecToday)                  *)
(***************************************************************************)
\* C26: the doctors offered as planned for today, and the region preselected for a
\* new visit, are taken from the plan of the week (Saturday to Friday) that contains
\* the day they were computed on
C26_TodaysPlan ==
    LET weekOf(n) == n - ((getDay(n) + 1) % 7)
    IN  /\ pendingDoctorsForToday.doctors # <<>>
            => planWeek.plan = {weekOf(pendingDoctorsForToday.now)}
        /\ (visitModal.isModalOpen /\ visitModal.initialRegionForVisit # 0)
            => planWeek.plan = {weekOf(visitModal.now)}

(***************************************************************************)
(* Properties of the week computations (SpecCalc)                          *)
(***************************************************************************)
\* C27: on every day the non-planning branch of RepDashboard, ManagerDashboard and
\* WeeklyView subtract the same number of days and reach the Saturday of the week,
\* and the date of the label of day index d has weekday d when the start date is a
\* Saturday
C27_WeekStartsAgree ==
    /\ weekStarts.called =>
           /\ weekStarts.rep = weekStarts.manager
           /\ weekStarts.manager = weekStarts.weekly
           /\ getDay(weekStarts.rep) = 6
           /\ weekStarts.now - weekStarts.rep \in 0 .. 6
    /\ (dayDateLabel.called /\ getDay(dayDateLabel.startDate) = 6) =>
           /\ getDay(dayDateLabel.date) = dayDateLabel.dayIndex
           /\ dayDateLabel.date - dayDateLabel.startDate \in 0 .. 6

C27_Witness ==
    /\ weekStarts.called
    /\ getDay(weekStarts.now) = 6
    /\ dayDateLabel.called
    /\ getDay(dayDateLabel.startDate) = 6
    /\ dayDateLabel.dayIndex = 5

(***************************************************************************)
(* Properties of cacheService (SpecCache)                                  *)
(***************************************************************************)
\* C29: get(k) returns the data of the latest set(k) exactly when that entry was not
\* removed or cleared since and the time is not past its expiry (the custom expiry
\* when supplied and not 0, else the time of the set + CACHE_EXPIRY_TIME), and null
\* otherwise; has(k) is true in exactly those cases; a get or has that sees an expired
\* entry deletes it
C29_CacheFreshness ==
    LET call == cacheLog.call
        latest == cacheLog.latest[call.key]
        expiry == IF latest.supplied /\ latest.customExpiry # 0
                  THEN latest.customExpiry
                  ELSE latest.timestamp + CACHE_EXPIRY_TIME
        fresh == latest.present /\ ~(dateNow > expiry)
    IN  /\ call.op = "get" => call.result = IF fresh THEN latest.data ELSE "null"
        /\ call.op = "has" => call.result = IF fresh THEN "true" ELSE "false"
        /\ call.op \in {"get", "has"} => (cacheStore[call.key].present <=> fresh)

C29_Witness ==
    /\ cacheLog.call.op = "has"
    /\ cacheLog.call.result = "false"
    /\ cacheLog.latest[cacheLog.call.key].present
    /\ cacheLog.latest[cacheLog.call.key].supplied
    /\ cacheLog.latest[cacheLog.call.key].customExpiry = dateNow - 1
    /\ \E k \in CacheKeys : cacheStore[k].present /\ cacheStore[k].expiry = dateNow

(***************************************************************************)
(* Properties of VisitForm (SpecForm)                                      *)
(***************************************************************************)
\* C30: selectedProductIds never holds a product twice and never more than 3; a toggle
\* of a selected product removes it, a toggle of an unselected one adds it when fewer
\* than 3 are selected and changes nothing otherwise
C30_ProductSelection ==
    LET Elems(seq) == {seq[i] : i \in 1 .. Len(seq)}
        selected == Elems(selectedProductIds)
        before == Elems(formLog.before)
        productId == formLog.arg
    IN  /\ Cardinality(selected) = Len(selectedProductIds)
        /\ Len(selectedProductIds) <= 3
        /\ formLog.op = "handleProductChange" =>
               /\ productId \in before => selected = before \ {productId}
               /\ (productId \notin before /\ Len(formLog.before) < 3)
                      => selected = before \cup {productId}
               /\ (productId \notin before /\ Len(formLog.before) >= 3)
                      => selectedProductIds = formLog.before

C30_Witness ==
    /\ formLog.op = "handleProductChange"
    /\ Len(formLog.before) = 3
    /\ \A i \in 1 .. 3 : formLog.before[i] # formLog.arg
    /\ visitTargetType = "pharmacy"

====
